---- MODULE Spec2Model ----
(***************************************************************************)
(* Model of the Next.js dependency tracker (dependencyService.ts,          *)
(* parser.ts, fileFinder.ts, extension.ts, utils.ts).                      *)
(*                                                                         *)
(* Strings that the code inspects by character (paths, module references)  *)
(* are sequences of one-character strings, so that startsWith, includes,   *)
(* slice, path.resolve, path.dirname ... are computed as the code computes *)
(* them; <<>> stands for undefined and for the empty string.               *)
(***************************************************************************)
EXTENDS Integers, Sequences, FiniteSets, TLC

(***************************************************************************)
(* Bounds of the model.                                                    *)
(***************************************************************************)
\* statements drawn for the project's exporting files
MaxStmts == 2
\* statements drawn for the importing file
MaxImports == 2
\* triggers (manual command, timer callbacks) followed by the run specifications
MaxInvocations == 2

(***************************************************************************)
(* JavaScript string operations on character sequences.                    *)
(***************************************************************************)
startsWith(s, p) == Len(p) <= Len(s) /\ SubSeq(s, 1, Len(p)) = p

endsWith(s, p) == Len(p) <= Len(s) /\ SubSeq(s, Len(s) - Len(p) + 1, Len(s)) = p

includes(s, p) == \E i \in 0..(Len(s) - Len(p)) : SubSeq(s, i + 1, i + Len(p)) = p

\* s.substring(n) / s.slice(n): the characters after the first n
substring(s, n) == SubSeq(s, n + 1, Len(s))

\* s.slice(0, -1)
sliceDropLast(s) == SubSeq(s, 1, Len(s) - 1)

lastIndexOf(s, c) ==
    LET I == {i \in 1..Len(s) : s[i] = c}
    IN  IF I = {} THEN 0 ELSE CHOOSE i \in I : \A j \in I : j <= i

RECURSIVE split(_, _)
\* s.split(c): the segments between occurrences of the character c
split(s, c) ==
    LET I == {i \in 1..Len(s) : s[i] = c}
    IN  IF I = {} THEN <<s>>
        ELSE LET i == CHOOSE k \in I : \A j \in I : k <= j
             IN  <<SubSeq(s, 1, i - 1)>> \o split(SubSeq(s, i + 1, Len(s)), c)

RECURSIVE join(_, _)
\* segs.join(c)
join(segs, c) ==
    IF Len(segs) = 0 THEN <<>>
    ELSE IF Len(segs) = 1 THEN segs[1]
    ELSE segs[1] \o <<c>> \o join(Tail(segs), c)

(***************************************************************************)
(* Characters and words used by the code and by the modelled project.      *)
(***************************************************************************)
Slash == <<"/">>
Dot == <<".">>
Star == <<"*">>
ExtTs == <<".", "t", "s">>
ExtTsx == <<".", "t", "s", "x">>
ExtJs == <<".", "j", "s">>
ExtJsx == <<".", "j", "s", "x">>
ExtJson == <<".", "j", "s", "o", "n">>
ExtNode == <<".", "n", "o", "d", "e">>
StrIndex == <<"i", "n", "d", "e", "x">>
StrNodeModules == <<"n", "o", "d", "e", "_", "m", "o", "d", "u", "l", "e", "s">>
StrApp == <<"/", "a", "p", "p", "/">>
StrActions == <<"/", "a", "c", "t", "i", "o", "n", "s", "/">>
StrPage == <<"/", "p", "a", "g", "e", ".">>
StrLayout == <<"/", "l", "a", "y", "o", "u", "t", ".">>

(***************************************************************************)
(* Node's path module (POSIX) on character sequences.                      *)
(***************************************************************************)
RECURSIVE normalizeSegs(_, _)
\* resolution of "." and ".." segments of an absolute path, left to right
normalizeSegs(segs, acc) ==
    IF Len(segs) = 0 THEN acc
    ELSE LET h == Head(segs)
         IN  IF h = <<>> \/ h = Dot THEN normalizeSegs(Tail(segs), acc)
             ELSE IF h = <<".", ".">>
                  THEN normalizeSegs(Tail(segs),
                                     IF Len(acc) = 0 THEN acc ELSE SubSeq(acc, 1, Len(acc) - 1))
                  ELSE normalizeSegs(Tail(segs), Append(acc, h))

\* path.normalize of an absolute path
pathNormalize(p) == Slash \o join(normalizeSegs(split(p, "/"), <<>>), "/")

\* path.resolve(from, to) with an absolute `from`
pathResolve(from, to) ==
    IF startsWith(to, Slash) THEN pathNormalize(to)
    ELSE pathNormalize(from \o Slash \o to)

\* path.join(a, b) with an absolute `a`
pathJoin(a, b) == pathNormalize(a \o Slash \o b)

\* path.dirname
pathDirname(p) ==
    LET i == lastIndexOf(p, "/")
    IN  IF i = 0 THEN Dot ELSE IF i = 1 THEN Slash ELSE SubSeq(p, 1, i - 1)

\* path.basename
pathBasename(p) == SubSeq(p, lastIndexOf(p, "/") + 1, Len(p))

\* path.extname
pathExtname(p) ==
    LET b == pathBasename(p)
        j == lastIndexOf(b, ".")
    IN  IF j <= 1 THEN <<>> ELSE SubSeq(b, j, Len(b))

RECURSIVE commonPrefixLen(_, _)
commonPrefixLen(a, b) ==
    IF Len(a) = 0 \/ Len(b) = 0 \/ Head(a) # Head(b) THEN 0
    ELSE 1 + commonPrefixLen(Tail(a), Tail(b))

\* path.relative(from, to) of two absolute paths
pathRelative(from, to) ==
    LET f == normalizeSegs(split(from, "/"), <<>>)
        t == normalizeSegs(split(to, "/"), <<>>)
        k == commonPrefixLen(f, t)
    IN  join([i \in 1..(Len(f) - k) |-> <<".", ".">>] \o SubSeq(t, k + 1, Len(t)), "/")

\* utils.relativePath
relativePath(absPath, workspacePath) == pathRelative(workspacePath, absPath)

(***************************************************************************)
(* State.                                                                  *)
(***************************************************************************)
VARIABLES
    \* environment: regular files on disk, directory symlinks, compiler config
    fsFiles, fsLinks, tsconfigOnDisk,
    \* what fs.stat and the file search add to fsFiles: the sizes in bytes of
    \* the files on disk, and the number of further source files without
    \* statements
    fsStats,
    \* source text of the project, as statements per file
    sources,
    \* dependencyService.ts module state
    cachedTsConfigPaths, tsConfigReadAttempted, moduleResolutionCache, isRunning,
    \* analyzeDependencies: position, parsed facts, locals and returned result
    pc, facts, an, result,
    \* the triggers that have fired with the position of their handlers, the
    \* debounce timer, and the environment each analysis ran against
    invocations, debounceTimer, runLog,
    \* extension.ts and utils.ts: whether a relevant document has been saved,
    \* the closure of a debounced function with its timers, and the polling
    \* timer with its configuration
    saved, debounced, polling

envVars == <<fsFiles, fsLinks, tsconfigOnDisk, fsStats, sources>>
cacheVars == <<cachedTsConfigPaths, tsConfigReadAttempted, moduleResolutionCache>>
analysisVars == <<pc, facts, an, result>>
extVars == <<saved, debounced, polling>>
runVars == <<isRunning, invocations, debounceTimer, runLog, extVars>>
vars == <<envVars, cacheVars, analysisVars, runVars>>

(***************************************************************************)
(* The filesystem as the code sees it through fs.existsSync, fs.statSync   *)
(* and fs.realpathSync.  A directory exists when a file lies beneath it.   *)
(***************************************************************************)
\* fs.realpathSync: a path through a symlinked directory names the target
realpathSync(p) ==
    LET L == {l \in fsLinks : p = l.from \/ startsWith(p, l.from \o Slash)}
    IN  IF L = {} THEN p
        ELSE LET l == CHOOSE x \in L : TRUE
             IN  l.to \o substring(p, Len(l.from))

isFile(p) == realpathSync(p) \in fsFiles

\* utils.ts:44: the closure of debounce before its first call, with the
\* clock and the record of the invocations and of the calls of func
NoTimers == [timeout |-> 0, timers |-> {}, nextId |-> 1, now |-> 0, log |-> <<>>]

\* a value of a setting, or of a computation on it: a number, or what is not
\* one
Num(n) == [kind |-> "number", n |-> n]
NaN == [kind |-> "NaN", n |-> 0]
Undefined == [kind |-> "undefined", n |-> 0]
NonNumericString == [kind |-> "string", n |-> 0]
\* a number above the longest delay of a timer
AboveTimeoutMax == [kind |-> "aboveTimeoutMax", n |-> 0]

\* extension.ts:8 before activate has run, with the settings of package.json
NotActivated ==
    [activated |-> FALSE, pollingInterval |-> 0, intervals |-> {}, nextId |-> 1,
     enablePolling |-> FALSE, pollingIntervalSeconds |-> Num(60)]

\* a project of a few small files
SmallProject == [others |-> 0, sizes |-> <<>>]

\* fs.promises.stat(file).size; a file without an entry is a small one
statSize(file) == IF file \in DOMAIN fsStats.sizes THEN fsStats.sizes[file] ELSE 1

isDirectory(p) == \E f \in fsFiles : startsWith(f, realpathSync(p) \o Slash)

existsSync(p) == isFile(p) \/ isDirectory(p)

(***************************************************************************)
(* Text of messages.  Fixed wording is one symbol per fragment; the parts  *)
(* built from inputs (module references, paths) are kept character by      *)
(* character, so String.includes on a module reference is computed.        *)
(***************************************************************************)
MsgLedToNodeModules == <<"require.resolve led to node_modules">>
MsgManualNodeModules == <<"Manual check resolved to node_modules">>
MsgRelativeFailed == <<"Relative path resolution failed: Cannot find file or index for '">>
MsgRequireError == <<"'. require.resolve error: ">>
MsgCannotFindModule == <<"Cannot find module '">>
MsgRequireStack == <<"' Require stack:">>
MsgUnsupportedType == <<"require.resolve found unsupported file type: ">>
MsgAliasFailed == <<"Alias resolution failed: Path mapping for '">>
MsgNoExistingFile == <<"' did not lead to an existing file.">>
MsgNotRelative == <<"Module is not relative and not resolved via tsconfig paths ">>
MsgLikelyExternal == <<"(likely external or unresolved alias).">>
MsgResolutionFailedFor == <<"Module resolution failed for '">>
MsgIn == <<"' in ">>
MsgColon == <<": ">>
MsgExportNotFound == <<"Export not found in target module">>
MsgNoExportsParsed == <<"Target file resolved but no exports were parsed/found.">>
MsgParseError == <<"Parse Error: ">>
MsgDash == <<" - ">>
MsgThrown == <<"error.message">>

(***************************************************************************)
(* getTsConfigOptions / clearTsConfigCache (part_001:655-726).             *)
(* tsconfigOnDisk is <<>> when no config file is found, else a one-element *)
(* sequence holding [readable, baseUrl, paths]; paths is the ordered list  *)
(* of [key, targets] of compilerOptions.paths.                             *)
(***************************************************************************)
NullTsConfig == [present |-> FALSE, baseUrl |-> <<>>, paths |-> <<>>]

\* g is the module state [tsConfigReadAttempted, cachedTsConfigPaths,
\* moduleResolutionCache];
\* the result is [value, g]: the returned options and the module state after
getTsConfigOptions(g, workspacePath) ==
    IF g.tsConfigReadAttempted
    THEN [value |-> g.cachedTsConfigPaths, g |-> g]
    ELSE IF tsconfigOnDisk = <<>> \/ ~tsconfigOnDisk[1].readable
         THEN [value |-> NullTsConfig,
               g |-> [g EXCEPT !.tsConfigReadAttempted = TRUE]]
         ELSE LET cfg == tsconfigOnDisk[1]
                  opts == [present |-> TRUE,
                           baseUrl |-> pathResolve(workspacePath,
                                                   IF cfg.baseUrl = <<>> THEN Dot ELSE cfg.baseUrl),
                           paths |-> cfg.paths]
              IN  [value |-> opts,
                   g |-> [g EXCEPT !.tsConfigReadAttempted = TRUE,
                                   !.cachedTsConfigPaths = opts]]

clearTsConfigCacheNoop(g) == g

clearTsConfigCache(g) ==
    [g EXCEPT !.tsConfigReadAttempted = FALSE, !.cachedTsConfigPaths = NullTsConfig]

(***************************************************************************)
(* resolveModulePath (part_001:739-888).                                   *)
(***************************************************************************)
allowedExts == <<ExtTs, ExtTsx, ExtJs, ExtJsx>>

InSeq(x, seq) == \E i \in 1..Len(seq) : seq[i] = x

RECURSIVE firstFile(_)
\* the first path of the list that is an existing regular file, else <<>>
firstFile(paths) ==
    IF Len(paths) = 0 THEN <<>>
    ELSE IF existsSync(Head(paths)) /\ isFile(Head(paths)) THEN Head(paths)
    ELSE firstFile(Tail(paths))

orElse(a, b) == IF a # <<>> THEN a ELSE b

realpathOrNone(found) == IF found = <<>> THEN <<>> ELSE realpathSync(found)

\* Node's require.resolve(request, {paths: [dir]}) for a relative request that
\* names base: the exact file, then .js, .json, .node, then index.* of a
\* directory; the real path of the file found, or <<>> when it throws
requireResolveAt(base) ==
    realpathOrNone(orElse(
        firstFile(<<base, base \o ExtJs, base \o ExtJson, base \o ExtNode>>),
        IF isDirectory(base)
        THEN firstFile(<<pathJoin(base, StrIndex \o ExtJs),
                         pathJoin(base, StrIndex \o ExtJson),
                         pathJoin(base, StrIndex \o ExtNode)>>)
        ELSE <<>>))

requireResolve(request, dir) == requireResolveAt(pathResolve(dir, request))

\* the manual probing shared by the relative and the alias branch:
\* candidate + ext for each allowed extension, then index + ext in a directory
probeFileOrIndex(candidateAbsolutePath) ==
    orElse(firstFile([i \in 1..Len(allowedExts) |->
                         candidateAbsolutePath \o allowedExts[i]]),
           IF existsSync(candidateAbsolutePath) /\ isDirectory(candidateAbsolutePath)
           THEN firstFile([i \in 1..Len(allowedExts) |->
                              pathJoin(candidateAbsolutePath, StrIndex \o allowedExts[i])])
           ELSE <<>>)

Resolved(path) == [resolvedPath |-> path, error |-> <<>>]
Failed(err) == [resolvedPath |-> <<>>, error |-> err]

\* part_001:762-779: the error message kept from the require.resolve attempt
nodeResolutionError(sourceModule, resolvedViaNode) ==
    IF resolvedViaNode # <<>>
    THEN MsgUnsupportedType \o pathExtname(resolvedViaNode)
    ELSE MsgCannotFindModule \o sourceModule \o MsgRequireStack

\* part_001:762-811, given what require.resolve and the manual probing found
relativeOutcome(sourceModule, resolvedViaNode, foundManualPath) ==
    IF resolvedViaNode # <<>> /\ InSeq(pathExtname(resolvedViaNode), allowedExts)
    THEN IF includes(resolvedViaNode, StrNodeModules)
         THEN Failed(MsgLedToNodeModules)
         ELSE Resolved(realpathSync(pathNormalize(resolvedViaNode)))
    ELSE IF foundManualPath # <<>>
         THEN IF includes(foundManualPath, StrNodeModules)
              THEN Failed(MsgManualNodeModules)
              ELSE Resolved(realpathSync(pathNormalize(foundManualPath)))
         ELSE Failed(MsgRelativeFailed \o sourceModule \o MsgRequireError
                     \o nodeResolutionError(sourceModule, resolvedViaNode))

\* part_001:755-812
resolveRelative(sourceModule, importerPath) ==
    relativeOutcome(sourceModule,
                    requireResolve(sourceModule, pathDirname(importerPath)),
                    probeFileOrIndex(pathResolve(pathDirname(importerPath), sourceModule)))

RECURSIVE longestMatchLoop(_, _, _)
\* part_001:821-834: the key selected among tsConfig.paths, <<>> when none
longestMatchLoop(paths, sourceModule, longestMatch) ==
    IF Len(paths) = 0 THEN longestMatch
    ELSE LET key == Head(paths).key
         IN  IF endsWith(key, Star)
             THEN LET prefix == sliceDropLast(key)
                  IN  IF startsWith(sourceModule, prefix)
                         /\ (longestMatch = <<>> \/ Len(prefix) > Len(longestMatch))
                      THEN longestMatchLoop(Tail(paths), sourceModule, key)
                      ELSE longestMatchLoop(Tail(paths), sourceModule, longestMatch)
             ELSE IF sourceModule = key
                  THEN key
                  ELSE longestMatchLoop(Tail(paths), sourceModule, longestMatch)

\* tsConfig.paths[key]
targetsOf(paths, key) ==
    LET I == {i \in 1..Len(paths) : paths[i].key = key}
    IN  paths[CHOOSE i \in I : \A j \in I : i <= j].targets

\* part_001:841-843
aliasTargetPath(targetPattern, remainingPath) ==
    IF endsWith(targetPattern, Star)
    THEN sliceDropLast(targetPattern) \o remainingPath
    ELSE targetPattern

\* part_001:846-869: file with extension, index file, then the candidate itself
probeAlias(candidateAbsolutePath) ==
    orElse(probeFileOrIndex(candidateAbsolutePath),
           IF existsSync(candidateAbsolutePath) /\ isFile(candidateAbsolutePath)
           THEN candidateAbsolutePath
           ELSE <<>>)

\* part_001:872-878: a path found in node_modules is passed over
acceptAlias(foundAliasPath) ==
    IF foundAliasPath # <<>> /\ ~includes(foundAliasPath, StrNodeModules)
    THEN realpathSync(pathNormalize(foundAliasPath))
    ELSE <<>>

RECURSIVE aliasTargetsLoop(_, _, _)
\* part_001:840-881: the first target that leads to a file outside node_modules
aliasTargetsLoop(potentialTargets, remainingPath, baseUrl) ==
    IF Len(potentialTargets) = 0 THEN <<>>
    ELSE orElse(acceptAlias(probeAlias(pathResolve(baseUrl,
                    aliasTargetPath(Head(potentialTargets), remainingPath)))),
                aliasTargetsLoop(Tail(potentialTargets), remainingPath, baseUrl))

\* part_001:837
remainingPathOf(sourceModule, longestMatch) ==
    IF endsWith(longestMatch, Star)
    THEN substring(sourceModule, Len(sliceDropLast(longestMatch)))
    ELSE <<>>

aliasOutcomeExternal(sourceModule, found) ==
    IF found # <<>> THEN Resolved(found)
    ELSE Failed(MsgNotRelative \o MsgLikelyExternal)

\* part_001:877-881: the file found through the alias, or the alias failure
aliasOutcome(sourceModule, found) ==
    IF found # <<>> THEN Resolved(found)
    ELSE Failed(MsgAliasFailed \o sourceModule \o MsgNoExistingFile)

\* part_001:836-887, given the key selected by the longestMatch loop
resolveWithMatch(sourceModule, tsConfig, longestMatch) ==
    IF longestMatch # <<>>
    THEN aliasOutcome(sourceModule,
                      aliasTargetsLoop(targetsOf(tsConfig.paths, longestMatch),
                                       remainingPathOf(sourceModule, longestMatch),
                                       tsConfig.baseUrl))
    ELSE Failed(MsgNotRelative \o MsgLikelyExternal)

\* part_001:816-887
resolveNonRelative(sourceModule, tsConfig) ==
    resolveWithMatch(sourceModule, tsConfig,
                     IF tsConfig.present
                     THEN longestMatchLoop(tsConfig.paths, sourceModule, <<>>)
                     ELSE <<>>)

cacheKey(sourceModule, importerPath, workspacePath) ==
    <<sourceModule, importerPath, workspacePath>>

\* moduleResolutionCache.get(key): <<value>> when present, <<>> when undefined
cacheGet(cache, key) ==
    LET I == {i \in 1..Len(cache) : cache[i].key = key}
    IN  IF I = {} THEN <<>> ELSE <<cache[CHOOSE i \in I : TRUE].value>>

\* part_001:755-887 for a reference missing from the cache; t is what
\* getTsConfigOptions returns when it is called
resolveUncached(g, sourceModule, importerPath, t) ==
    IF startsWith(sourceModule, Dot)
    THEN [resolution |-> resolveRelative(sourceModule, importerPath),
          g |-> g, probed |-> TRUE]
    ELSE [resolution |-> resolveNonRelative(sourceModule, t.value),
          g |-> t.g, probed |-> TRUE]

resolveWithCache(g, sourceModule, importerPath, workspacePath, cached) ==
    IF cached # <<>>
    THEN [resolution |-> cached[1], g |-> g, probed |-> FALSE]
    ELSE resolveUncached(g, sourceModule, importerPath,
                         getTsConfigOptions(g, workspacePath))

\* g is [tsConfigReadAttempted, cachedTsConfigPaths, moduleResolutionCache];
\* the result is [resolution, g, probed]: what is returned, the module state
\* after the call, and whether the resolution procedure was executed
resolveModulePath(g, sourceModule, importerPath, workspacePath) ==
    resolveWithCache(g, sourceModule, importerPath, workspacePath,
                     cacheGet(g.moduleResolutionCache,
                              cacheKey(sourceModule, importerPath, workspacePath)))

(***************************************************************************)
(* Source text.  A file is a list of top-level statements, one per line;   *)
(* a statement is the syntax node the parser tests for:                    *)
(*   FunctionDeclaration  export [default] function name() {}              *)
(*   VariableStatement    export const name = ...                          *)
(*   ExportAssignment     export default <expression>  (name: identifier)  *)
(*   ExportDeclaration    export { name }                                  *)
(*   ImportDeclaration    import name, { names } from 'module'             *)
(*   CallExpression       name(...) ; fetch('module', { method })          *)
(* Identifiers are character sequences; <<>> stands for undefined.         *)
(***************************************************************************)
Stmt(kind, name, isDefault, module, names, method) ==
    [kind |-> kind, name |-> name, isDefault |-> isDefault,
     module |-> module, names |-> names, method |-> method]

StrDefault == <<"d", "e", "f", "a", "u", "l", "t">>
StrUse == <<"u", "s", "e">>
StrFetch == <<"f", "e", "t", "c", "h">>
StrGET == <<"G", "E", "T">>
StrPOST == <<"P", "O", "S", "T">>
StrPUT == <<"P", "U", "T">>
StrPATCH == <<"P", "A", "T", "C", "H">>
StrDELETE == <<"D", "E", "L", "E", "T", "E">>
StrOPTIONS == <<"O", "P", "T", "I", "O", "N", "S">>
StrHEAD == <<"H", "E", "A", "D">>
HttpMethods == <<StrGET, StrPOST, StrPUT, StrPATCH, StrDELETE, StrOPTIONS, StrHEAD>>

ExportInfo(name, localName, filePath, line, isDefault) ==
    [name |-> name, localName |-> localName, filePath |-> filePath,
     line |-> line, isDefault |-> isDefault]

\* parser.ts parseExports (src/fileFinder.ts:125-191)
parseExports(node, filePath, line) ==
    IF node.kind = "ExportDeclaration"
    THEN <<ExportInfo(node.name, node.name, filePath, line, FALSE)>>
    ELSE IF node.kind = "ExportAssignment"
    THEN <<ExportInfo(StrDefault, node.name, filePath, line, TRUE)>>
    ELSE IF node.kind = "VariableStatement"
    THEN <<ExportInfo(node.name, node.name, filePath, line, FALSE)>>
    ELSE IF node.kind = "FunctionDeclaration"
    THEN <<ExportInfo(IF node.isDefault THEN StrDefault ELSE node.name,
                      node.name, filePath, line, node.isDefault)>>
    ELSE <<>>

\* parser.ts parseImports (src/fileFinder.ts:193-221)
parseImports(node, filePath, line) ==
    IF node.kind = "ImportDeclaration"
    THEN <<[sourcePath |-> filePath,
            importedNames |-> (IF node.name # <<>> THEN <<node.name>> ELSE <<>>) \o node.names,
            sourceModule |-> node.module,
            line |-> line]>>
    ELSE <<>>

DynamicUsageInfo(usageType, targetPath, method, sourceFile, line) ==
    [usageType |-> usageType, targetPath |-> targetPath, method |-> method,
     sourceFile |-> sourceFile, line |-> line]

\* parser.ts parseDynamicUsage (src/fileFinder.ts:260-376): fetch calls, exported
\* hook declarations and hook calls
parseDynamicUsage(node, filePath, line) ==
    [dynamicUsages |->
        (IF node.kind = "CallExpression" /\ node.name = StrFetch
         THEN <<DynamicUsageInfo("fetch", node.module,
                                 IF node.method = <<>> THEN StrGET ELSE node.method,
                                 filePath, line)>>
         ELSE <<>>)
        \o
        (IF node.kind = "CallExpression" /\ startsWith(node.name, StrUse)
         THEN <<DynamicUsageInfo("hook-call", node.name, <<>>, filePath, line)>>
         ELSE <<>>),
     hooks |->
        IF node.kind = "FunctionDeclaration" /\ node.name # <<>>
           /\ startsWith(node.name, StrUse)
        THEN <<[name |-> node.name, filePath |-> filePath, line |-> line, usedIn |-> <<>>]>>
        ELSE <<>>]

\* parser.ts parseInterfaces (src/fileFinder.ts:223-257): an interface
\* declaration, a type reference or the identifier of a heritage clause
parseInterfaces(node, filePath, line) ==
    [interfaces |->
        IF node.kind = "InterfaceDeclaration"
        THEN <<[name |-> node.name, filePath |-> filePath, line |-> line]>>
        ELSE <<>>,
     potentialUsage |->
        IF node.kind = "TypeReference" \/ node.kind = "HeritageIdentifier"
        THEN <<[name |-> node.name, usage |-> [filePath |-> filePath, line |-> line]]>>
        ELSE <<>>]

EmptyFacts ==
    [allExports |-> <<>>, allImports |-> <<>>, allInterfaces |-> <<>>,
     allPotentialUsage |-> <<>>, routes |-> <<>>, serverActions |-> <<>>,
     hooks |-> <<>>, dynamicUsages |-> <<>>, parseErrors |-> <<>>]

RECURSIVE visitNodes(_, _, _, _)
\* parser.ts visitNodes (src/fileFinder.ts:379-408): the facts of the statements
\* from line on, appended to acc
visitNodes(stmts, filePath, line, acc) ==
    IF line > Len(stmts) THEN acc
    ELSE LET node == stmts[line]
             dyn == parseDynamicUsage(node, filePath, line)
             interfaceInfo == parseInterfaces(node, filePath, line)
         IN  visitNodes(stmts, filePath, line + 1,
                 [acc EXCEPT !.allExports = @ \o parseExports(node, filePath, line),
                             !.allImports = @ \o parseImports(node, filePath, line),
                             !.allInterfaces = @ \o interfaceInfo.interfaces,
                             !.allPotentialUsage = @ \o interfaceInfo.potentialUsage,
                             !.dynamicUsages = @ \o dyn.dynamicUsages,
                             !.hooks = @ \o dyn.hooks])

(***************************************************************************)
(* parseRoutes (src/fileFinder.ts:411-507).                                *)
(***************************************************************************)
StrAppDir == <<"a", "p", "p">>
StrSrcAppDir == <<"s", "r", "c", "/", "a", "p", "p">>
StrRoute == <<"r", "o", "u", "t", "e">>
StrPageName == <<"p", "a", "g", "e">>

\* the characters of the modelled paths in the order of String.localeCompare
CollationOrder ==
    <<"_", "-", ".", "(", ")", "[", "]", "@", "*", "/",
      "a", "b", "c", "d", "e", "f", "g", "h", "i", "j", "k", "l", "m",
      "n", "o", "p", "q", "r", "s", "t", "u", "v", "w", "x", "y", "z">>

charRank(c) == CHOOSE i \in 1..Len(CollationOrder) : CollationOrder[i] = c

RECURSIVE localeCompare(_, _)
\* a.localeCompare(b): -1, 0 or 1
localeCompare(a, b) ==
    IF Len(a) = 0 /\ Len(b) = 0 THEN 0
    ELSE IF Len(a) = 0 THEN -1
    ELSE IF Len(b) = 0 THEN 1
    ELSE IF charRank(Head(a)) < charRank(Head(b)) THEN -1
    ELSE IF charRank(Head(a)) > charRank(Head(b)) THEN 1
    ELSE localeCompare(Tail(a), Tail(b))

RECURSIVE insertRoute(_, _)
insertRoute(sorted, r) ==
    IF Len(sorted) = 0 THEN <<r>>
    ELSE IF localeCompare(Head(sorted).routePath, r.routePath) <= 0
    THEN <<Head(sorted)>> \o insertRoute(Tail(sorted), r)
    ELSE <<r>> \o sorted

RECURSIVE sortRoutes(_, _)
\* routes.sort((a, b) => a.routePath.localeCompare(b.routePath)), a stable sort
sortRoutes(routes, sorted) ==
    IF Len(routes) = 0 THEN sorted
    ELSE sortRoutes(Tail(routes), insertRoute(sorted, Head(routes)))

\* Array.prototype.filter
RECURSIVE ascending(_)
\* the numbers of a finite set in increasing order
ascending(I) ==
    IF I = {} THEN <<>>
    ELSE LET m == CHOOSE i \in I : \A j \in I : i <= j
         IN  <<m>> \o ascending(I \ {m})

filterSeq(seq, keep(_)) ==
    LET ix == ascending({i \in 1..Len(seq) : keep(seq[i])})
    IN  [k \in 1..Len(ix) |-> seq[ix[k]]]

isRouteGroup(part) == startsWith(part, <<"(">>) /\ endsWith(part, <<")">>)
isHiddenSegment(part) == startsWith(part, <<"@">>) \/ startsWith(part, <<"_">>)
keepPart(part) == ~isRouteGroup(part) /\ ~isHiddenSegment(part)

\* the route path of the directory segments beneath the app directory
routePathOf(parts) == Slash \o join(filterSeq(parts, keepPart), "/")

\* the top-level exported function declarations named as an HTTP method
exportedMethodsOf(stmts) ==
    LET isHandler(node) == node.kind = "FunctionDeclaration" /\ node.name # <<>>
                           /\ InSeq(node.name, HttpMethods)
        handlers == filterSeq(stmts, isHandler)
    IN  [i \in 1..Len(handlers) |-> handlers[i].name]

RECURSIVE parseRoutesLoop(_, _, _, _)
parseRoutesLoop(files, appDir, workspacePath, routes) ==
    IF Len(files) = 0 THEN routes
    ELSE LET filePath == Head(files).path
             parts == split(pathRelative(appDir, filePath), "/")
             fileName == parts[Len(parts)]
             isApi == fileName \in {StrRoute \o ExtTs, StrRoute \o ExtJs}
             isPage == fileName \in {StrPageName \o ExtTs, StrPageName \o ExtTsx,
                                     StrPageName \o ExtJs, StrPageName \o ExtJsx}
             route == [routePath |-> routePathOf(SubSeq(parts, 1, Len(parts) - 1)),
                       filePath |-> relativePath(filePath, workspacePath),
                       isApi |-> isApi,
                       exportedMethods |-> IF isApi THEN exportedMethodsOf(Head(files).stmts)
                                           ELSE <<>>,
                       usedIn |-> <<>>]
         IN  IF startsWith(filePath, appDir \o Slash) /\ (isApi \/ isPage)
             THEN parseRoutesLoop(Tail(files), appDir, workspacePath, Append(routes, route))
             ELSE parseRoutesLoop(Tail(files), appDir, workspacePath, routes)

parseRoutes(files, workspacePath) ==
    LET isDir(d) == existsSync(d) /\ isDirectory(d)
        appDirs == filterSeq(<<pathJoin(workspacePath, StrAppDir),
                               pathJoin(workspacePath, StrSrcAppDir)>>, isDir)
    IN  IF Len(appDirs) = 0 THEN <<>>
        ELSE sortRoutes(parseRoutesLoop(files, appDirs[1], workspacePath, <<>>), <<>>)

(***************************************************************************)
(* The route matching predicate of parseProject (src/fileFinder.ts:579-602)*)
(* The pattern built by the two String.replace calls is a list of tokens:  *)
(* a character of the route path, or "([^/]+)" for a bracketed part.       *)
(***************************************************************************)
TokSegment == "([^/]+)"

\* index of the first "]" after position i that closes a non-empty bracket, or 0
closingBracket(s, i) ==
    LET J == {j \in (i + 1)..Len(s) : s[j] = "]"}
    IN  IF J = {} THEN 0
        ELSE LET j == CHOOSE k \in J : \A m \in J : k <= m
             IN  IF j > i + 1 THEN j ELSE 0

RECURSIVE routePattern(_, _)
\* routePath.replace(/\[([^\]]+)\]/g, '([^/]+)'); the second replace finds no
\* bracket left to rewrite
routePattern(s, i) ==
    IF i > Len(s) THEN <<>>
    ELSE IF s[i] = "[" /\ closingBracket(s, i) # 0
    THEN <<TokSegment>> \o routePattern(s, closingBracket(s, i) + 1)
    ELSE <<s[i]>> \o routePattern(s, i + 1)

RECURSIVE regexMatch(_, _, _, _)
\* new RegExp(`^${pattern}(/.*)?$`).test(target), from token i and character j
regexMatch(pattern, i, target, j) ==
    IF i > Len(pattern)
    THEN j > Len(target) \/ target[j] = "/"
    ELSE IF pattern[i] = TokSegment
    THEN \E k \in j..Len(target) :
            /\ \A m \in j..k : target[m] # "/"
            /\ regexMatch(pattern, i + 1, target, k + 1)
    ELSE /\ j <= Len(target)
         /\ (pattern[i] = "." \/ pattern[i] = target[j])
         /\ regexMatch(pattern, i + 1, target, j + 1)

routeMatches(route, usage) ==
    \/ usage.targetPath = route.routePath
    \/ startsWith(usage.targetPath, route.routePath \o Slash)
    \/ /\ includes(route.routePath, <<"[">>)
       /\ regexMatch(routePattern(route.routePath, 1), 1, usage.targetPath, 1)

lastMatch(I) == CHOOSE i \in I : \A j \in I : i >= j

\* Array.prototype.find walks the array from the front: of the indices that
\* satisfy the test, the lowest
firstMatch(I) == CHOOSE i \in I : \A j \in I : i <= j

\* index of the first element that satisfies test, 0 when Array.find is undefined
findIndex(seq, test(_)) ==
    LET I == {i \in 1..Len(seq) : test(seq[i])}
    IN  IF I = {} THEN 0 ELSE firstMatch(I)

RECURSIVE matchUsagesToRoutes(_, _)
\* src/fileFinder.ts:576-608
matchUsagesToRoutes(usages, routes) ==
    IF Len(usages) = 0 THEN routes
    ELSE LET usage == Head(usages)
             test(route) == routeMatches(route, usage)
             i == IF usage.usageType = "fetch" THEN findIndex(routes, test) ELSE 0
         IN  matchUsagesToRoutes(Tail(usages),
                 IF i = 0 THEN routes
                 ELSE [routes EXCEPT ![i].usedIn = Append(@, usage)])

RECURSIVE matchUsagesToHooks(_, _)
\* src/fileFinder.ts:611-619
matchUsagesToHooks(usages, hooks) ==
    IF Len(usages) = 0 THEN hooks
    ELSE LET usage == Head(usages)
             test(hook) == hook.name = usage.targetPath
             i == IF usage.usageType = "hook-call" THEN findIndex(hooks, test) ELSE 0
         IN  matchUsagesToHooks(Tail(usages),
                 IF i = 0 THEN hooks
                 ELSE [hooks EXCEPT ![i].usedIn = Append(@, usage)])

\* a node of the file makes the visitor throw
visitThrows(stmts) == \E n \in 1..Len(stmts) : stmts[n].kind = "ThrowingNode"

\* src/fileFinder.ts:101-123: parseFile returns null when the program has no
\* source file for the path and the file cannot be read either, throws when
\* the visitor throws, and returns the facts of the file otherwise
parseFile(file) ==
    IF ~isFile(file.path) THEN "null"
    ELSE IF visitThrows(file.stmts) THEN "throws"
    ELSE "facts"

\* src/fileFinder.ts:549-569, the body of files.forEach for one file
parseOneFile(file, workspacePath, acc, parsed) ==
    IF parsed = "facts" THEN visitNodes(file.stmts, file.path, 1, acc)
    ELSE IF parsed = "throws"
    THEN [acc EXCEPT !.parseErrors =
            Append(@, MsgParseError \o relativePath(file.path, workspacePath)
                      \o MsgDash \o MsgThrown)]
    ELSE acc

RECURSIVE parseFiles(_, _, _)
\* src/fileFinder.ts:549-569
parseFiles(files, workspacePath, acc) ==
    IF Len(files) = 0 THEN acc
    ELSE parseFiles(Tail(files), workspacePath,
                    parseOneFile(Head(files), workspacePath, acc, parseFile(Head(files))))

\* parser.ts parseProject (src/fileFinder.ts:510-643); files are [path, stmts]
parseProject(files, workspacePath) ==
    LET parsed == parseFiles(files, workspacePath, EmptyFacts)
        routes == parseRoutes(files, workspacePath)
    IN  [parsed EXCEPT !.routes = matchUsagesToRoutes(parsed.dynamicUsages, routes),
                       !.hooks = matchUsagesToHooks(parsed.dynamicUsages, parsed.hooks)]

(***************************************************************************)
(* analyzeDependencies (part_001:892-1264).                                *)
(* The locals of one call are the record `an`:                             *)
(*   exportsMap     entries [key, exp, usedIn] in insertion order          *)
(*   exportsByFile  entries [file, exports] in insertion order             *)
(*   missingImports, analysisErrors                                        *)
(*   impIdx         the number of imports the forEach has processed        *)
(*   probeLog       the cache keys for which the resolution procedure ran  *)
(* A loop that pushes usage sites is computed as the list of its pushes    *)
(* [key, usage] in loop order, applied to the map afterwards.              *)
(***************************************************************************)
RECURSIVE flatten(_)
flatten(seqs) == IF Len(seqs) = 0 THEN <<>> ELSE Head(seqs) \o flatten(Tail(seqs))

uniqueKey(filePath, name, isDefault) == <<filePath, name, isDefault>>

keyOf(exp) == uniqueKey(pathNormalize(exp.filePath), exp.name, exp.isDefault)

mapHas(map, key) == \E i \in 1..Len(map) : map[i].key = key

RECURSIVE indexExportsMap(_, _)
\* part_001:909-913: Map.set keeps the position of a key already present
indexExportsMap(allExports, map) ==
    IF Len(allExports) = 0 THEN map
    ELSE LET exp == Head(allExports)
             entry == [key |-> keyOf(exp), exp |-> exp, usedIn |-> <<>>]
             I == {i \in 1..Len(map) : map[i].key = entry.key}
         IN  indexExportsMap(Tail(allExports),
                 IF I = {} THEN Append(map, entry)
                 ELSE [map EXCEPT ![CHOOSE i \in I : TRUE] = entry])

RECURSIVE indexExportsByFile(_, _)
\* part_001:914-921
indexExportsByFile(allExports, byFile) ==
    IF Len(allExports) = 0 THEN byFile
    ELSE LET exp == Head(allExports)
             normPath == pathNormalize(exp.filePath)
             I == {i \in 1..Len(byFile) : byFile[i].file = normPath}
         IN  indexExportsByFile(Tail(allExports),
                 IF I = {} THEN Append(byFile, [file |-> normPath, exports |-> <<exp>>])
                 ELSE [byFile EXCEPT ![CHOOSE i \in I : TRUE].exports = Append(@, exp)])

\* exportsByFile.get(file): the list, or <<>> for undefined (a present list is
\* never empty)
exportsOfFile(byFile, file) ==
    LET I == {i \in 1..Len(byFile) : byFile[i].file = file}
    IN  IF I = {} THEN <<>> ELSE byFile[CHOOSE i \in I : TRUE].exports

RECURSIVE indexInterfaces(_, _)
\* part_001:923-929: interfacesMap is keyed by the interface name
indexInterfaces(allInterfaces, map) ==
    IF Len(allInterfaces) = 0 THEN map
    ELSE LET intf == Head(allInterfaces)
             has == \E i \in 1..Len(map) : map[i].name = intf.name
         IN  indexInterfaces(Tail(allInterfaces),
                 IF ~has
                 THEN Append(map, [name |-> intf.name, filePath |-> intf.filePath,
                                   line |-> intf.line, usedIn |-> <<>>])
                 ELSE map)

RECURSIVE aggregateInterfaceUsage(_, _)
\* part_001:1242-1248 (5)
aggregateInterfaceUsage(map, allPotentialUsage) ==
    IF Len(allPotentialUsage) = 0 THEN map
    ELSE LET potentialUse == Head(allPotentialUsage)
             I == {i \in 1..Len(map) : map[i].name = potentialUse.name}
         IN  aggregateInterfaceUsage(
                 IF I # {}
                 THEN [map EXCEPT ![CHOOSE i \in I : TRUE].usedIn =
                                      Append(@, potentialUse.usage)]
                 ELSE map,
                 Tail(allPotentialUsage))

\* part_001:908-932, the exports
indexExports(allExports) ==
    [exportsMap |-> indexExportsMap(allExports, <<>>),
     exportsByFile |-> indexExportsByFile(allExports, <<>>),
     interfacesMap |-> <<>>,
     missingImports |-> <<>>,
     analysisErrors |-> <<>>,
     impIdx |-> 0,
     probeLog |-> <<>>]

\* part_001:908-932
indexProject(parsed) ==
    [indexExports(parsed.allExports) EXCEPT
        !.interfacesMap = indexInterfaces(parsed.allInterfaces, <<>>)]

replaceUsage(map, pushes) ==
    [i \in 1..Len(map) |->
        LET mine(p) == p.key = map[i].key
            added == filterSeq(pushes, mine)
        IN  [map[i] EXCEPT !.usedIn = [k \in 1..Len(added) |-> added[k].usage]]]

\* every push of the list lands on the entry of its key, in order
applyPushes(map, pushes) ==
    [i \in 1..Len(map) |->
        LET mine(p) == p.key = map[i].key
            added == filterSeq(pushes, mine)
        IN  [map[i] EXCEPT !.usedIn = @ \o [k \in 1..Len(added) |-> added[k].usage]]]

Push(key, filePath, line) == [key |-> key, usage |-> [filePath |-> filePath, line |-> line]]

FrameworkFile == <<"next.js-framework">>

\* part_001:952-967: whether the loop over targetExports stops at exp
exportMatches(exp, importedName) ==
    \/ ~exp.isDefault /\ exp.name = importedName
    \/ exp.isDefault /\ (exp.localName = importedName \/ exp.localName = <<>>)

\* part_001:945-980 for one imported name: the index in targetExports of the
\* export that receives the usage site, 0 when foundExport stays false
foundExportIndex(map, targetExports, resolvedNormPath, importedName) ==
    LET test(exp) == /\ mapHas(map, uniqueKey(resolvedNormPath, exp.name, exp.isDefault))
                     /\ exportMatches(exp, importedName)
    IN  findIndex(targetExports, test)

MissingImportInfo(imp, importedName, resolvedTargetPath, resolutionError) ==
    [importingFilePath |-> imp.sourcePath, importingLine |-> imp.line,
     missingName |-> importedName, targetModule |-> imp.sourceModule,
     resolvedTargetPath |-> resolvedTargetPath, resolutionError |-> resolutionError]

neverLikelyExternal(error) == FALSE

\* part_001:993: resolution.error.includes("(likely external")
isLikelyExternal(error) == includes(error, MsgLikelyExternal)

\* part_001:945-980: the usage sites pushed for the names of one import
importPushes(map, imp, resolvedNormPath, targetExports) ==
    flatten([n \in 1..Len(imp.importedNames) |->
        LET i == foundExportIndex(map, targetExports, resolvedNormPath,
                                  imp.importedNames[n])
        IN  IF i = 0 THEN <<>>
            ELSE <<Push(uniqueKey(resolvedNormPath, targetExports[i].name,
                                  targetExports[i].isDefault),
                        imp.sourcePath, imp.line)>>])

noneNotFound(map, imp, resolvedNormPath, targetExports) == <<>>

\* part_001:970-979: the names of one import for which foundExport stays false
importNotFound(map, imp, resolvedNormPath, targetExports) ==
    flatten([n \in 1..Len(imp.importedNames) |->
        IF foundExportIndex(map, targetExports, resolvedNormPath,
                            imp.importedNames[n]) # 0
        THEN <<>>
        ELSE <<MissingImportInfo(imp, imp.importedNames[n], resolvedNormPath,
                                 MsgExportNotFound)>>])

\* one MissingImport per imported name, with the same reason
missingForAll(imp, resolvedTargetPath, resolutionError) ==
    [n \in 1..Len(imp.importedNames) |->
        MissingImportInfo(imp, imp.importedNames[n], resolvedTargetPath, resolutionError)]

recordResolvedWhileUnused(loc, imp, resolvedNormPath, targetExports) ==
    IF \E i \in 1..Len(loc.exportsMap) : Len(loc.exportsMap[i].usedIn) > 0
    THEN loc
    ELSE [loc EXCEPT
            !.exportsMap = applyPushes(@, importPushes(loc.exportsMap, imp,
                                                     resolvedNormPath, targetExports))]

\* part_001:940-992: the import resolved to resolvedNormPath
recordResolved(loc, imp, resolvedNormPath, targetExports) ==
    IF targetExports # <<>>
    THEN [loc EXCEPT
            !.exportsMap = applyPushes(@, importPushes(loc.exportsMap, imp,
                                                     resolvedNormPath, targetExports)),
            !.missingImports = @ \o importNotFound(loc.exportsMap, imp,
                                                   resolvedNormPath, targetExports)]
    ELSE [loc EXCEPT !.missingImports =
            @ \o missingForAll(imp, resolvedNormPath, MsgNoExportsParsed)]

\* part_001:1003
resolutionErrorMsg(imp, importerPath, workspacePath, error) ==
    MsgResolutionFailedFor \o imp.sourceModule \o MsgIn
    \o relativePath(importerPath, workspacePath) \o MsgColon \o error

\* part_001:993-1007: the import did not resolve
recordFailed(loc, imp, importerPath, workspacePath, error) ==
    IF error # <<>> /\ ~isLikelyExternal(error)
    THEN [loc EXCEPT
            !.missingImports = @ \o missingForAll(imp, <<>>, error),
            !.analysisErrors =
                IF \E i \in 1..Len(loc.analysisErrors) :
                        includes(loc.analysisErrors[i], imp.sourceModule)
                THEN @
                ELSE Append(@, resolutionErrorMsg(imp, importerPath, workspacePath, error))]
    ELSE loc

\* the loop counter and the record of resolution procedures executed
countImport(loc, imp, importerPath, workspacePath, probed) ==
    [loc EXCEPT !.impIdx = @ + 1,
                !.probeLog = IF probed
                             THEN Append(@, cacheKey(imp.sourceModule, importerPath,
                                                     workspacePath))
                             ELSE @]

\* part_001:940-1007, given r, the outcome of resolveModulePath
recordResolution(loc, imp, importerPath, workspacePath, r) ==
    [g |-> r.g,
     loc |-> IF r.resolution.resolvedPath # <<>>
             THEN recordResolved(countImport(loc, imp, importerPath, workspacePath, r.probed),
                                 imp, r.resolution.resolvedPath,
                                 exportsOfFile(loc.exportsByFile, r.resolution.resolvedPath))
             ELSE recordFailed(countImport(loc, imp, importerPath, workspacePath, r.probed),
                               imp, importerPath, workspacePath, r.resolution.error)]

\* part_001:936-1008, the body of allImports.forEach for one import;
\* the result is [loc, g]
processImport(loc, g, imp, workspacePath) ==
    recordResolution(loc, imp, pathNormalize(imp.sourcePath), workspacePath,
                     resolveModulePath(g, imp.sourceModule, pathNormalize(imp.sourcePath),
                                       workspacePath))

RECURSIVE processImports(_, _, _)
\* part_001:936-1008, allImports.forEach from the import after impIdx on;
\* lg and the result are [loc, g]
processImports(lg, allImports, workspacePath) ==
    IF lg.loc.impIdx >= Len(allImports) THEN lg
    ELSE processImports(processImport(lg.loc, lg.g, allImports[lg.loc.impIdx + 1],
                                      workspacePath),
                        allImports, workspacePath)

FrameworkPush(exp) == Push(keyOf(exp), FrameworkFile, 0)

\* part_001:1016: whether the file of the export index is taken for the route's
routeFileMatches(filePath, route) ==
    includes(filePath, route.filePath) \/ includes(route.filePath, pathBasename(filePath))

usageForNoMethod(usage, name) == FALSE

\* part_001:1040: the fetch usages of a route that are passed on to the export
\* name: those of its HTTP method, and those without a method
usageForMethod(usage, name) == usage.method = name \/ usage.method = <<>>

\* part_001:1010-1053 (3.1)
routeHandlerPushes(loc, routes) ==
    flatten([r \in 1..Len(routes) |->
        IF Len(routes[r].exportedMethods) = 0 THEN <<>>
        ELSE flatten([f \in 1..Len(loc.exportsByFile) |->
            IF ~routeFileMatches(loc.exportsByFile[f].file, routes[r]) THEN <<>>
            ELSE LET exports == loc.exportsByFile[f].exports
                 IN  flatten([e \in 1..Len(exports) |->
                        IF ~InSeq(exports[e].name, routes[r].exportedMethods) THEN <<>>
                        ELSE LET forMethod(usage) == usageForMethod(usage, exports[e].name)
                                 routeUsages == filterSeq(routes[r].usedIn, forMethod)
                             IN  <<FrameworkPush(exports[e])>> \o
                                 [u \in 1..Len(routeUsages) |->
                                     Push(keyOf(exports[e]), routeUsages[u].sourceFile,
                                          routeUsages[u].line)]])])])

routeHandlerRule(loc, routes) ==
    [loc EXCEPT !.exportsMap = applyPushes(@, routeHandlerPushes(loc, routes))]

\* part_001:1055-1087 (3.2)
serverActionPushes(loc, serverActions) ==
    flatten([a \in 1..Len(serverActions) |->
        LET actionFilePath == pathNormalize(serverActions[a].filePath)
            actionExports == exportsOfFile(loc.exportsByFile, actionFilePath)
        IN  flatten([e \in 1..Len(actionExports) |->
                IF actionExports[e].name # serverActions[a].name THEN <<>>
                ELSE LET key == uniqueKey(actionFilePath, actionExports[e].name,
                                          actionExports[e].isDefault)
                         actionUsages == serverActions[a].usedIn
                     IN  <<Push(key, FrameworkFile, 0)>> \o
                         [u \in 1..Len(actionUsages) |->
                             Push(key, actionUsages[u].sourceFile, actionUsages[u].line)]])])

serverActionRule(loc, serverActions) ==
    [loc EXCEPT !.exportsMap = applyPushes(@, serverActionPushes(loc, serverActions))]

\* part_001:1089-1116 (3.3)
hookPushesWithFramework(loc, hooks) ==
    flatten([h \in 1..Len(hooks) |->
        LET hookFilePath == pathNormalize(hooks[h].filePath)
            hookExports == exportsOfFile(loc.exportsByFile, hookFilePath)
        IN  flatten([e \in 1..Len(hookExports) |->
                IF hookExports[e].name # hooks[h].name THEN <<>>
                ELSE <<Push(uniqueKey(hookFilePath, hookExports[e].name,
                                      hookExports[e].isDefault), FrameworkFile, 0)>>])])

hookPushes(loc, hooks) ==
    flatten([h \in 1..Len(hooks) |->
        LET hookFilePath == pathNormalize(hooks[h].filePath)
            hookExports == exportsOfFile(loc.exportsByFile, hookFilePath)
        IN  flatten([e \in 1..Len(hookExports) |->
                IF hookExports[e].name # hooks[h].name THEN <<>>
                ELSE LET key == uniqueKey(hookFilePath, hookExports[e].name,
                                          hookExports[e].isDefault)
                         hookUsages == hooks[h].usedIn
                     IN  [u \in 1..Len(hookUsages) |->
                             Push(key, hookUsages[u].sourceFile, hookUsages[u].line)]])])

hookRule(loc, hooks) ==
    [loc EXCEPT !.exportsMap = applyPushes(@, hookPushes(loc, hooks))]

\* part_001:1118-1176 (3.4, 3.5): the default exports of files whose path
\* includes the marker ('/page.' or '/layout.')
conventionPushes(loc, marker) ==
    flatten([f \in 1..Len(loc.exportsByFile) |->
        IF ~includes(loc.exportsByFile[f].file, marker) THEN <<>>
        ELSE LET exports == loc.exportsByFile[f].exports
             IN  flatten([e \in 1..Len(exports) |->
                    IF exports[e].isDefault THEN <<FrameworkPush(exports[e])>> ELSE <<>>])])

pageRule(loc) ==
    [loc EXCEPT !.exportsMap = applyPushes(@, conventionPushes(loc, StrPage))]

layoutRule(loc) ==
    [loc EXCEPT !.exportsMap = applyPushes(@, conventionPushes(loc, StrLayout))]

nextJsSpecialExports ==
    {<<"g", "e", "n", "e", "r", "a", "t", "e", "M", "e", "t", "a", "d", "a", "t", "a">>,
     <<"m", "e", "t", "a", "d", "a", "t", "a">>,
     <<"g", "e", "n", "e", "r", "a", "t", "e", "S", "t", "a", "t", "i", "c",
       "P", "a", "r", "a", "m", "s">>,
     <<"r", "e", "v", "a", "l", "i", "d", "a", "t", "e">>,
     <<"d", "y", "n", "a", "m", "i", "c">>,
     <<"f", "e", "t", "c", "h", "C", "a", "c", "h", "e">>,
     <<"p", "r", "e", "f", "e", "r", "r", "e", "d", "R", "e", "g", "i", "o", "n">>,
     <<"g", "e", "t", "S", "t", "a", "t", "i", "c", "P", "r", "o", "p", "s">>,
     <<"g", "e", "t", "S", "e", "r", "v", "e", "r", "S", "i", "d", "e",
       "P", "r", "o", "p", "s">>}

\* part_001:1178-1229 (3.6)
specialExportPushes(allExports) ==
    flatten([e \in 1..Len(allExports) |->
        LET exp == allExports[e]
            normalizedPath == pathNormalize(exp.filePath)
        IN  IF includes(normalizedPath, StrApp) /\ ~exp.isDefault
            THEN (IF exp.name \in nextJsSpecialExports
                  THEN <<FrameworkPush(exp)>> ELSE <<>>)
                 \o
                 (IF includes(normalizedPath, StrActions)
                  THEN <<FrameworkPush(exp)>> ELSE <<>>)
            ELSE <<>>])

specialExportsRule(loc, allExports) ==
    [loc EXCEPT !.exportsMap = applyPushes(@, specialExportPushes(allExports))]

\* part_001:1010-1229: the rules 3.1 to 3.6 in the order of the code
applyRules(loc, parsed) ==
    specialExportsRule(
        layoutRule(pageRule(hookRule(serverActionRule(
            routeHandlerRule(loc, parsed.routes),
            parsed.serverActions), parsed.hooks))),
        parsed.allExports)

\* part_001:1231-1240 (4): usedExports is a Map in insertion order, unusedExports
\* a list; both as lists of the entries of exportsMap
partition(loc) ==
    LET used(entry) == Len(entry.usedIn) > 0
        unused(entry) == ~(Len(entry.usedIn) > 0)
    IN  [usedExports |-> filterSeq(loc.exportsMap, used),
         unusedExports |-> filterSeq(loc.exportsMap, unused)]

EmptyResult ==
    [usedExports |-> <<>>, unusedExports |-> <<>>, missingImports |-> <<>>,
     interfaces |-> <<>>, errors |-> <<>>]

\* part_001:1253-1263
assembleResult(loc, allPotentialUsage) ==
    LET parts == partition(loc)
    IN  [usedExports |-> parts.usedExports, unusedExports |-> parts.unusedExports,
         missingImports |-> loc.missingImports,
         interfaces |-> aggregateInterfaceUsage(loc.interfacesMap, allPotentialUsage),
         errors |-> loc.analysisErrors]

\* analyzeDependencies as one call: the result is [result, g]
analyzeDependencies(parsed, g, workspacePath) ==
    LET imported == processImports([loc |-> indexProject(parsed),
                                    g |-> clearTsConfigCache(g)],
                                   parsed.allImports, workspacePath)
        ruled == applyRules(imported.loc, parsed)
    IN  [result |-> assembleResult(ruled, parsed.allPotentialUsage), g |-> imported.g]

(***************************************************************************)
(* The modelled project: workspace /w with an importing file a.ts, a       *)
(* target module x.ts, an API route file and a vendored module.            *)
(***************************************************************************)
Workspace == <<"/", "w">>
FileA == <<"/", "w", "/", "a", ".", "t", "s">>
FileX == <<"/", "w", "/", "x", ".", "t", "s">>
FileRoute == <<"/", "w", "/", "a", "p", "p", "/", "a", "p", "i", "/", "u", "/",
               "r", "o", "u", "t", "e", ".", "t", "s">>
FileVendor == <<"/", "w", "/", "n", "o", "d", "e", "_", "m", "o", "d", "u", "l", "e", "s",
                "/", "m", ".", "t", "s">>

NameFoo == <<"f", "o", "o">>
NameD == <<"D">>
NameM == <<"m">>
NameR == <<"r">>
NameUseW == <<"u", "s", "e", "W">>
ModX == <<".", "/", "x">>
ModVendor == <<".", "/", "n", "o", "d", "e", "_", "m", "o", "d", "u", "l", "e", "s", "/", "m">>
ModReact == <<"r", "e", "a", "c", "t">>
ModAliasX == <<"@", "/", "x">>
ModAliasVendor == <<"@", "/", "n", "o", "d", "e", "_", "m", "o", "d", "u", "l", "e", "s", "/", "m">>
UrlApiU == <<"/", "a", "p", "i", "/", "u">>

ExportFunction(name) == Stmt("FunctionDeclaration", name, FALSE, <<>>, <<>>, <<>>)
ExportDefaultFunction(name) == Stmt("FunctionDeclaration", name, TRUE, <<>>, <<>>, <<>>)
ExportConst(name) == Stmt("VariableStatement", name, FALSE, <<>>, <<>>, <<>>)
ExportDefault(name) == Stmt("ExportAssignment", name, TRUE, <<>>, <<>>, <<>>)
ImportNamed(names, module) == Stmt("ImportDeclaration", <<>>, FALSE, module, names, <<>>)
ImportDefault(name, module) == Stmt("ImportDeclaration", name, FALSE, module, <<>>, <<>>)
Call(name) == Stmt("CallExpression", name, FALSE, <<>>, <<>>, <<>>)
Fetch(url, method) == Stmt("CallExpression", StrFetch, FALSE, url, <<>>, method)

\* compilerOptions { baseUrl: ".", paths: { "@/*": ["*"] } }
TsConfigAlias ==
    <<[readable |-> TRUE, baseUrl |-> Dot,
       paths |-> <<[key |-> <<"@", "/", "*">>, targets |-> <<Star>>]>>]>>

SeqsUpTo(S, n) == UNION {[1..k -> S] : k \in 0..n}

\* the files handed to parseProject: the discovered files with their statements
Project(files, aStmts, xStmts, rStmts) ==
    LET present(f) == f.path \in files
    IN  filterSeq(<<[path |-> FileA, stmts |-> aStmts],
                    [path |-> FileRoute, stmts |-> rStmts],
                    [path |-> FileX, stmts |-> xStmts]>>, present)

G == [tsConfigReadAttempted |-> tsConfigReadAttempted,
      cachedTsConfigPaths |-> cachedTsConfigPaths,
      moduleResolutionCache |-> moduleResolutionCache]

SetG(g) ==
    /\ tsConfigReadAttempted' = g.tsConfigReadAttempted
    /\ cachedTsConfigPaths' = g.cachedTsConfigPaths
    /\ moduleResolutionCache' = g.moduleResolutionCache

InitModuleState ==
    /\ cachedTsConfigPaths = NullTsConfig
    /\ tsConfigReadAttempted = FALSE
    /\ moduleResolutionCache = <<>>
    /\ isRunning = FALSE

InitAnalysis ==
    /\ pc = "parse"
    /\ facts = EmptyFacts
    /\ an = indexExports(<<>>)
    /\ result = EmptyResult

InitNoRuns ==
    /\ invocations = <<>>
    /\ debounceTimer = "none"
    /\ runLog = <<>>
    /\ saved = FALSE
    /\ debounced = NoTimers
    /\ polling = NotActivated

\* an analysis of a project drawn from the given choices
InitProject(fileSets, configs, aChoices, xChoices, rChoices) ==
    /\ fsFiles \in fileSets
    /\ fsLinks = {}
    /\ fsStats = SmallProject
    /\ tsconfigOnDisk \in configs
    /\ \E aStmts \in SeqsUpTo(aChoices, MaxImports),
          xStmts \in SeqsUpTo(xChoices, MaxStmts),
          rStmts \in SeqsUpTo(rChoices, MaxStmts) :
            sources = Project(fsFiles, aStmts, xStmts, rStmts)
    /\ InitModuleState
    /\ InitAnalysis
    /\ InitNoRuns

(***************************************************************************)
(* The steps of one analysis: parseProject, then analyzeDependencies.      *)
(***************************************************************************)
ParseProject ==
    /\ pc = "parse"
    /\ facts' = parseProject(sources, Workspace)
    /\ pc' = "index"
    /\ UNCHANGED <<envVars, cacheVars, runVars, an, result>>

\* part_001:903-932
IndexExports ==
    /\ pc = "index"
    /\ SetG(clearTsConfigCache(G))
    /\ an' = indexProject(facts)
    /\ pc' = "imports"
    /\ UNCHANGED <<envVars, runVars, facts, result>>

\* lg is [loc, g] as processImport returns it
StoreImport(lg) == an' = lg.loc /\ SetG(lg.g)

ProcessImport ==
    /\ pc = "imports"
    /\ an.impIdx < Len(facts.allImports)
    /\ StoreImport(processImport(an, G, facts.allImports[an.impIdx + 1], Workspace))
    /\ UNCHANGED <<envVars, runVars, pc, facts, result>>

ApplyRule(from, to, ruled) ==
    /\ pc = from
    /\ an' = ruled
    /\ pc' = to
    /\ UNCHANGED <<envVars, cacheVars, runVars, facts, result>>

RouteHandlerRule ==
    /\ an.impIdx = Len(facts.allImports)
    /\ ApplyRule("imports", "serverActionRule", routeHandlerRule(an, facts.routes))

ServerActionRule ==
    ApplyRule("serverActionRule", "hookRule", serverActionRule(an, facts.serverActions))

HookRule == ApplyRule("hookRule", "pageRule", hookRule(an, facts.hooks))

PageRule == ApplyRule("pageRule", "layoutRule", pageRule(an))

LayoutRule == ApplyRule("layoutRule", "specialRule", layoutRule(an))

SpecialExportsRule ==
    ApplyRule("specialRule", "partition", specialExportsRule(an, facts.allExports))

\* part_001:1231-1263, and part_001:1659 where the caller appends the parse
\* errors to the errors of the result
Partition ==
    /\ pc = "partition"
    /\ result' = [assembleResult(an, facts.allPotentialUsage) EXCEPT
                      !.errors = @ \o facts.parseErrors]
    /\ pc' = "done"
    /\ UNCHANGED <<envVars, cacheVars, runVars, facts, an>>

Next ==
    \/ ParseProject
    \/ IndexExports
    \/ ProcessImport
    \/ RouteHandlerRule
    \/ ServerActionRule
    \/ HookRule
    \/ PageRule
    \/ LayoutRule
    \/ SpecialExportsRule
    \/ Partition

(***************************************************************************)
(* Specifications of one analysis.  They share Next and differ in the      *)
(* project analysed.                                                       *)
(***************************************************************************)
\* export/import matching: the exports of x.ts against the imports of a.ts
Init ==
    InitProject({{FileA, FileX}}, {<<>>},
                {ImportNamed(<<NameFoo>>, ModX), ImportDefault(NameD, ModX),
                 ImportDefault(NameFoo, ModX)},
                {ExportFunction(NameFoo), ExportConst(NameFoo), ExportDefault(<<>>),
                 ExportDefault(NameFoo)},
                {})

Spec == Init /\ [][Next]_vars

\* module resolution: relative, aliased and bare references, with and without
\* the target file, a vendored copy and a compiler config
InitResolve ==
    InitProject({{FileA, FileX}, {FileA}, {FileA, FileX, FileVendor}},
                {<<>>, TsConfigAlias},
                {ImportNamed(<<NameFoo>>, ModX), ImportNamed(<<NameM>>, ModVendor),
                 ImportNamed(<<NameR>>, ModReact), ImportNamed(<<NameFoo>>, ModAliasX),
                 ImportNamed(<<NameM>>, ModAliasVendor)},
                {ExportFunction(NameFoo)},
                {})

SpecResolve == InitResolve /\ [][Next]_vars

\* framework liveness: a hook module, its callers and an API route file
InitLive ==
    InitProject({{FileA, FileX, FileRoute}}, {<<>>},
                {Call(NameUseW), ImportNamed(<<NameUseW>>, ModX)},
                {ExportFunction(NameUseW), ExportConst(NameUseW)},
                {ExportFunction(StrGET), ExportConst(StrGET)})

SpecLive == InitLive /\ [][Next]_vars

\* route matching: fetch calls of a.ts against API route files with a static,
\* a dynamic and a catch-all segment, and a file named route.ts outside app/
FileRouteId == <<"/", "w", "/", "a", "p", "p", "/", "a", "p", "i", "/", "[", "i", "]", "/",
                 "r", "o", "u", "t", "e", ".", "t", "s">>
FileRouteCatchAll == <<"/", "w", "/", "a", "p", "p", "/", "[", ".", ".", ".", "s", "]", "/",
                       "e", "/", "r", "o", "u", "t", "e", ".", "t", "s">>
FileLibRoute == <<"/", "w", "/", "l", "i", "b", "/", "r", "o", "u", "t", "e", ".", "t", "s">>
UrlApiUX == <<"/", "a", "p", "i", "/", "u", "/", "x">>
UrlApiV == <<"/", "a", "p", "i", "/", "v">>
UrlABE == <<"/", "a", "/", "b", "/", "e">>
UrlApp == <<"/", "a", "p", "p">>

\* the discovered files: a.ts with its statements, the route files and the
\* file outside app/ with theirs
RoutesProject(files, aStmts, rStmts, lStmts) ==
    LET present(f) == f.path \in files
    IN  filterSeq(<<[path |-> FileA, stmts |-> aStmts],
                    [path |-> FileRouteCatchAll, stmts |-> rStmts],
                    [path |-> FileRouteId, stmts |-> rStmts],
                    [path |-> FileRoute, stmts |-> rStmts],
                    [path |-> FileLibRoute, stmts |-> lStmts]>>, present)

RoutesFileSets ==
    {{FileA, FileRoute}, {FileA, FileRoute, FileRouteId}, {FileA, FileRoute, FileLibRoute},
     {FileA, FileRouteId, FileRouteCatchAll}, {FileA, FileRouteCatchAll}}

InitRoutes ==
    /\ fsFiles \in RoutesFileSets
    /\ fsLinks = {}
    /\ fsStats = SmallProject
    /\ tsconfigOnDisk = <<>>
    /\ \E aStmts \in SeqsUpTo({Fetch(UrlApiU, <<>>), Fetch(UrlApiU, StrPOST),
                               Fetch(UrlApiUX, <<>>), Fetch(UrlApiV, <<>>),
                               Fetch(UrlABE, <<>>), Fetch(UrlApp, <<>>),
                               Call(NameUseW), ImportNamed(<<StrGET>>, ModX)}, MaxImports),
          rStmts \in SeqsUpTo({ExportFunction(StrGET), ExportFunction(StrPOST)}, MaxStmts),
          lStmts \in SeqsUpTo({ExportFunction(StrGET)}, 1) :
            sources = RoutesProject(fsFiles, aStmts, rStmts, lStmts)
    /\ InitModuleState
    /\ InitAnalysis
    /\ InitNoRuns

SpecRoutes == InitRoutes /\ [][Next]_vars

\* the actions-directory convention: a module in app/actions and one in an
\* actions directory outside app/, imported or not
FileAppAction == <<"/", "w", "/", "a", "p", "p", "/", "a", "c", "t", "i", "o", "n", "s", "/",
                   "x", ".", "t", "s">>
FileAction == <<"/", "w", "/", "a", "c", "t", "i", "o", "n", "s", "/", "x", ".", "t", "s">>
ModActionsX == <<".", "/", "a", "c", "t", "i", "o", "n", "s", "/", "x">>

ActionsProject(files, aStmts, xStmts) ==
    LET present(f) == f.path \in files
    IN  filterSeq(<<[path |-> FileA, stmts |-> aStmts],
                    [path |-> FileAction, stmts |-> xStmts],
                    [path |-> FileAppAction, stmts |-> xStmts]>>, present)

InitActions ==
    /\ fsFiles \in {{FileA, FileAppAction}, {FileA, FileAction},
                    {FileA, FileAppAction, FileAction}}
    /\ fsLinks = {}
    /\ fsStats = SmallProject
    /\ tsconfigOnDisk = <<>>
    /\ \E aStmts \in SeqsUpTo({ImportNamed(<<NameFoo>>, ModActionsX),
                               ImportNamed(<<NameFoo>>, ModX)}, MaxImports),
          xStmts \in SeqsUpTo({ExportFunction(NameFoo), ExportConst(NameR),
                               ExportDefault(<<>>)}, MaxStmts) :
            sources = ActionsProject(fsFiles, aStmts, xStmts)
    /\ InitModuleState
    /\ InitAnalysis
    /\ InitNoRuns

SpecActions == InitActions /\ [][Next]_vars

\* probing: the import of ./x from a.ts against every combination of the
\* files x.<ext> and x/index.<ext>, and aliased imports from a.ts and s/b.ts
\* against alias tables with one and with two wildcard keys.  The probed
\* files hold no statements.
FileXTsx == <<"/", "w", "/", "x", ".", "t", "s", "x">>
FileXJs == <<"/", "w", "/", "x", ".", "j", "s">>
FileXJsx == <<"/", "w", "/", "x", ".", "j", "s", "x">>
FileXIndexTs == <<"/", "w", "/", "x", "/", "i", "n", "d", "e", "x", ".", "t", "s">>
FileXIndexTsx == <<"/", "w", "/", "x", "/", "i", "n", "d", "e", "x", ".", "t", "s", "x">>
FileXIndexJs == <<"/", "w", "/", "x", "/", "i", "n", "d", "e", "x", ".", "j", "s">>
FileXIndexJsx == <<"/", "w", "/", "x", "/", "i", "n", "d", "e", "x", ".", "j", "s", "x">>
FileSB == <<"/", "w", "/", "s", "/", "b", ".", "t", "s">>
FileQXY == <<"/", "w", "/", "q", "/", "x", "y", ".", "t", "s">>
FileRY == <<"/", "w", "/", "r", "/", "y", ".", "t", "s">>
FileSUH == <<"/", "w", "/", "s", "/", "u", "/", "h", ".", "t", "s">>
FileSUHIndex == <<"/", "w", "/", "s", "/", "u", "/", "h", "/", "i", "n", "d", "e", "x", ".", "t", "s">>
ModAliasXY == <<"@", "/", "x", "y">>
ModAliasUH == <<"@", "/", "u", "/", "h">>

AliasEntry(key, target) == [key |-> key, targets |-> <<target>>]

\* paths: { "@/*": ["q/*"], "@/x*": ["r/*"] }
TsConfigShortFirst ==
    <<[readable |-> TRUE, baseUrl |-> Dot,
       paths |-> <<AliasEntry(<<"@", "/", "*">>, <<"q", "/", "*">>),
                   AliasEntry(<<"@", "/", "x", "*">>, <<"r", "/", "*">>)>>]>>

\* paths: { "@/x*": ["r/*"], "@/*": ["q/*"] }
TsConfigLongFirst ==
    <<[readable |-> TRUE, baseUrl |-> Dot,
       paths |-> <<AliasEntry(<<"@", "/", "x", "*">>, <<"r", "/", "*">>),
                   AliasEntry(<<"@", "/", "*">>, <<"q", "/", "*">>)>>]>>

\* paths: { "@*": ["q*"], "@/x*": ["r/*"] }
TsConfigTwoApart ==
    <<[readable |-> TRUE, baseUrl |-> Dot,
       paths |-> <<AliasEntry(<<"@", "*">>, <<"q", "*">>),
                   AliasEntry(<<"@", "/", "x", "*">>, <<"r", "/", "*">>)>>]>>

\* baseUrl: "s", paths: { "@/*": ["*"] }
TsConfigSrc ==
    <<[readable |-> TRUE, baseUrl |-> <<"s">>,
       paths |-> <<AliasEntry(<<"@", "/", "*">>, Star)>>]>>

ProbeProject(files, aStmts, bStmts) ==
    LET present(f) == f.path \in files
    IN  filterSeq(<<[path |-> FileA, stmts |-> aStmts],
                    [path |-> FileQXY, stmts |-> <<>>],
                    [path |-> FileRY, stmts |-> <<>>],
                    [path |-> FileSB, stmts |-> bStmts],
                    [path |-> FileSUH, stmts |-> <<>>],
                    [path |-> FileSUHIndex, stmts |-> <<>>],
                    [path |-> FileXJs, stmts |-> <<>>],
                    [path |-> FileXJsx, stmts |-> <<>>],
                    [path |-> FileX, stmts |-> <<>>],
                    [path |-> FileXTsx, stmts |-> <<>>],
                    [path |-> FileXIndexJs, stmts |-> <<>>],
                    [path |-> FileXIndexJsx, stmts |-> <<>>],
                    [path |-> FileXIndexTs, stmts |-> <<>>],
                    [path |-> FileXIndexTsx, stmts |-> <<>>]>>, present)

InitProbeRelative ==
    /\ \E probed \in SUBSET {FileX, FileXTsx, FileXJs, FileXJsx, FileXIndexTs,
                            FileXIndexTsx, FileXIndexJs, FileXIndexJsx} :
          fsFiles = {FileA} \cup probed
    /\ tsconfigOnDisk = <<>>
    /\ \E aStmts \in SeqsUpTo({ImportNamed(<<NameM>>, ModX)}, MaxImports) :
          sources = ProbeProject(fsFiles, aStmts, <<>>)

InitProbeAlias ==
    /\ \E probed \in SUBSET {FileQXY, FileRY, FileSUH, FileSUHIndex} :
          fsFiles = {FileA, FileSB} \cup probed
    /\ tsconfigOnDisk \in {TsConfigShortFirst, TsConfigLongFirst, TsConfigTwoApart,
                           TsConfigSrc}
    /\ \E stmts \in SeqsUpTo({ImportNamed(<<NameM>>, ModAliasXY),
                              ImportNamed(<<NameM>>, ModAliasUH)}, MaxImports) :
          sources = ProbeProject(fsFiles, stmts, stmts)

InitProbe ==
    /\ InitProbeRelative \/ InitProbeAlias
    /\ fsLinks = {}
    /\ fsStats = SmallProject
    /\ InitModuleState
    /\ InitAnalysis
    /\ InitNoRuns

SpecProbe == InitProbe /\ [][Next]_vars

\* interfaces: a.ts and x.ts declare and reference interfaces
NameI == <<"I">>
NameJ == <<"J">>
InterfaceDeclaration(name) == Stmt("InterfaceDeclaration", name, FALSE, <<>>, <<>>, <<>>)
TypeReference(name) == Stmt("TypeReference", name, FALSE, <<>>, <<>>, <<>>)
HeritageIdentifier(name) == Stmt("HeritageIdentifier", name, FALSE, <<>>, <<>>, <<>>)

InitInterfaces ==
    InitProject({{FileA, FileX}}, {<<>>},
                {InterfaceDeclaration(NameI), TypeReference(NameI),
                 HeritageIdentifier(NameI), ImportNamed(<<NameFoo>>, ModX)},
                {InterfaceDeclaration(NameI), InterfaceDeclaration(NameJ),
                 TypeReference(NameI), ExportFunction(NameFoo)},
                {})

SpecInterfaces == InitInterfaces /\ [][Next]_vars

\* extraction failures: x.ts may be gone from the disk when it is parsed, and
\* either file may hold a node on which the visitor throws
ThrowingNode == Stmt("ThrowingNode", <<>>, FALSE, <<>>, <<>>, <<>>)

InitFaults ==
    /\ fsFiles \in {{FileA, FileX}, {FileA}}
    /\ fsLinks = {}
    /\ fsStats = SmallProject
    /\ tsconfigOnDisk = <<>>
    /\ \E aStmts \in SeqsUpTo({ImportNamed(<<NameFoo>>, ModX), ExportFunction(NameD),
                               ThrowingNode}, MaxImports),
          xStmts \in SeqsUpTo({ExportFunction(NameFoo), InterfaceDeclaration(NameI),
                               ThrowingNode}, MaxStmts) :
            sources = Project({FileA, FileX}, aStmts, xStmts, <<>>)
    /\ InitModuleState
    /\ InitAnalysis
    /\ InitNoRuns

SpecFaults == InitFaults /\ [][Next]_vars

\* the names of an import: a.ts imports one or two names from './x', which
\* exports some of them, or nothing
ImportDefaultAndNamed(name, names, module) ==
    Stmt("ImportDeclaration", name, FALSE, module, names, <<>>)

InitNames ==
    InitProject({{FileA, FileX}}, {<<>>},
                {ImportNamed(<<NameFoo, NameR>>, ModX), ImportNamed(<<NameR>>, ModX),
                 ImportDefaultAndNamed(NameD, <<NameFoo>>, ModX),
                 ImportDefault(NameD, ModX)},
                {ExportFunction(NameFoo), ExportConst(NameFoo), ExportDefault(NameD),
                 ExportDefault(<<>>)},
                {})

SpecNames == InitNames /\ [][Next]_vars

\* failed references: a.ts imports './x', './xy' and 'react'; x.ts may be
\* missing and xy.ts is
ModXY == <<".", "/", "x", "y">>

InitErrors ==
    InitProject({{FileA}, {FileA, FileX}}, {<<>>},
                {ImportNamed(<<NameFoo>>, ModX), ImportNamed(<<NameFoo>>, ModXY),
                 ImportNamed(<<NameR>>, ModReact)},
                {ExportFunction(NameFoo)},
                {})

SpecErrors == InitErrors /\ [][Next]_vars

(***************************************************************************)
(* updateDependencyReports (part_001:1614-1690) and the triggers of        *)
(* extension.ts.  invocations holds one record per trigger that has fired: *)
(*   trigger  "manual", "poll" or "debounce"                               *)
(*   step     the await at which its handler is suspended                  *)
(*            ("findProjectFilesWithRetry", "ensureOutputDir",             *)
(*            "findProjectFiles", "writeFile"), or "returned"              *)
(*   written  the report files written so far                              *)
(*   did      the work started on its behalf                               *)
(*   exit     the way its handler returned                                 *)
(* A handler runs from one await to the next without interleaving, so the  *)
(* code between two awaits is one action.                                  *)
(***************************************************************************)
\* the report files written by part_001:1675-1679
ReportFiles == 5

\* extension.ts:10; no statement assigns it again
isInitialScanComplete == FALSE

Invocation(trigger, step, did) ==
    [trigger |-> trigger, step |-> step, written |-> 0, did |-> did, exit |-> "none"]

skipsNever(running) == FALSE

\* part_001:1618-1621: if (isRunning) return
skipsTrigger(running) == running

finallyKeepsGuard(running) == running

\* part_001:1687-1689: the value of isRunning after the finally block
finallyBlock(running) == FALSE

\* part_001:1617-1627: updateDependencyReports up to its first await
enterUpdate(inv, running) ==
    IF skipsTrigger(running)
    THEN [inv EXCEPT !.step = "returned", !.exit = "skipped"]
    ELSE [inv EXCEPT !.step = "ensureOutputDir"]

\* part_001:1618-1622: isRunning after the head of updateDependencyReports
guardAfterEnter(running) == IF skipsTrigger(running) THEN running ELSE TRUE

\* the handler of invocation i returns through the finally block
Return(i, inv, exit) ==
    /\ invocations' = [invocations EXCEPT
                          ![i] = [inv EXCEPT !.step = "returned", !.exit = exit]]
    /\ isRunning' = finallyBlock(isRunning)

\* the handler of invocation i stops at its next await
Suspend(i, inv) ==
    /\ invocations' = [invocations EXCEPT ![i] = inv]
    /\ UNCHANGED isRunning

\* part_002:9-10
MAX_FILE_SIZE == 1048576
MAX_FILES == 10000

\* part_002:13-81: the number of files findProjectFiles returns
filesFound == Cardinality(fsFiles) + fsStats.others

\* part_002:88-110: the resource limits of findProjectFilesWithRetry on the
\* files found
resourceLimits(found) ==
    IF found > MAX_FILES THEN "tooManyFiles"
    ELSE IF \E file \in fsFiles : statSize(file) > MAX_FILE_SIZE THEN "filesTooLarge"
    ELSE "none"

\* extension.ts:40-52: what the command makes of the settled discovery; a
\* limit that is exceeded comes back as an error with no files
manualOutcome(outcome, limits) ==
    IF outcome = "files" /\ limits # "none" THEN "findError" ELSE outcome

\* extension.ts:21-40: the command starts its own file discovery
ManualCommand ==
    /\ Len(invocations) < MaxInvocations
    /\ invocations' = Append(invocations,
                             Invocation("manual", "findProjectFilesWithRetry",
                                        {"discovery"}))
    /\ UNCHANGED <<envVars, cacheVars, analysisVars, isRunning, debounceTimer, runLog, extVars>>

\* extension.ts:40-55: findProjectFilesWithRetry has settled
ManualFilesFound ==
    \E i \in 1..Len(invocations) :
        /\ invocations[i].step = "findProjectFilesWithRetry"
        /\ \E outcome \in {"cancelled", "findError", "files"} :
              IF manualOutcome(outcome, resourceLimits(filesFound)) = "files"
              THEN /\ invocations' = [invocations EXCEPT
                                         ![i] = enterUpdate(@, isRunning)]
                   /\ isRunning' = guardAfterEnter(isRunning)
              ELSE /\ invocations' = [invocations EXCEPT
                                         ![i].step = "returned",
                                         ![i].exit = manualOutcome(outcome,
                                                         resourceLimits(filesFound))]
                   /\ UNCHANGED isRunning
        /\ UNCHANGED <<envVars, cacheVars, analysisVars, debounceTimer, runLog, extVars>>

\* extension.ts:193-212 with utils.ts:43-55: a save (re)starts the debounce
\* timer once the initial scan is complete
OnDidSaveTextDocument ==
    /\ debounceTimer' = IF isInitialScanComplete THEN "pending" ELSE debounceTimer
    /\ UNCHANGED <<envVars, cacheVars, analysisVars, isRunning, invocations, runLog,
                   extVars>>

\* the same handler, with the save event recorded in saved
SaveObserved ==
    /\ saved' = TRUE
    /\ debounceTimer' = IF isInitialScanComplete THEN "pending" ELSE debounceTimer
    /\ UNCHANGED <<envVars, cacheVars, analysisVars, isRunning, invocations, runLog,
                   debounced, polling>>

\* the timers whose callback may run: setInterval (extension.ts:99) and the
\* debounce timeout (utils.ts:49)
PendingTimers == {"poll"} \cup (IF debounceTimer = "pending" THEN {"debounce"} ELSE {})

\* extension.ts:74-79, 99-104: a timer callback calls updateDependencyReports
TimerCallback(t) ==
    /\ Len(invocations) < MaxInvocations
    /\ t \in PendingTimers
    /\ invocations' = Append(invocations,
                             enterUpdate(Invocation(t, "called", {}), isRunning))
    /\ debounceTimer' = IF t = "debounce" THEN "none" ELSE debounceTimer
    /\ isRunning' = guardAfterEnter(isRunning)
    /\ UNCHANGED <<envVars, cacheVars, analysisVars, runLog, extVars>>

TimerFired == \E t \in {"poll", "debounce"} : TimerCallback(t)

\* part_001:1627-1631: ensureOutputDir has settled
EnsureOutputDirSettled ==
    \E i \in 1..Len(invocations) :
        /\ invocations[i].step = "ensureOutputDir"
        /\ \E outputDir \in {"null", "dir"} :
              IF outputDir = "null"
              THEN Return(i, invocations[i], "noOutputDir")
              ELSE Suspend(i, [invocations[i] EXCEPT !.step = "findProjectFiles",
                                                     !.did = @ \cup {"discovery"}])
        /\ UNCHANGED <<envVars, cacheVars, analysisVars, debounceTimer, runLog, extVars>>

\* part_001:1659 and the module state analyzeDependencies leaves
StoreAnalysis(parsed, r) ==
    /\ result' = [r.result EXCEPT !.errors = @ \o parsed.parseErrors]
    /\ SetG(r.g)

\* part_001:1645-1659
RunAnalysis(parsed) ==
    /\ facts' = parsed
    /\ StoreAnalysis(parsed, analyzeDependencies(parsed, G, Workspace))
    /\ runLog' = Append(runLog, [config |-> tsconfigOnDisk, files |-> fsFiles])

\* part_001:1631-1675: findProjectFiles has settled; parsing and analysis are
\* synchronous and end at the await of the first fs.writeFile
FindProjectFilesSettled ==
    \E i \in 1..Len(invocations) :
        /\ invocations[i].step = "findProjectFiles"
        /\ \E outcome \in {"findError", "threw", "analysed"} :
              IF outcome = "findError" \/ Len(sources) = 0
              THEN /\ Return(i, invocations[i],
                             IF outcome = "findError" THEN "findError" ELSE "noFiles")
                   /\ UNCHANGED <<cacheVars, facts, result, runLog>>
              ELSE IF outcome = "threw"
              THEN /\ Return(i, [invocations[i] EXCEPT !.did = @ \cup {"parse"}], "threw")
                   /\ UNCHANGED <<cacheVars, facts, result, runLog>>
              ELSE /\ Suspend(i, [invocations[i] EXCEPT
                                     !.step = "writeFile",
                                     !.did = @ \cup {"parse", "analysis", "write"}])
                   /\ RunAnalysis(parseProject(sources, Workspace))
        /\ UNCHANGED <<envVars, pc, an, debounceTimer, extVars>>

\* part_001:1675-1689: an fs.writeFile has settled
WriteFileSettled ==
    \E i \in 1..Len(invocations) :
        /\ invocations[i].step = "writeFile"
        /\ \E ok \in BOOLEAN :
              IF ~ok
              THEN Return(i, invocations[i], "threw")
              ELSE IF invocations[i].written + 1 = ReportFiles
              THEN Return(i, [invocations[i] EXCEPT !.written = @ + 1], "complete")
              ELSE Suspend(i, [invocations[i] EXCEPT !.written = @ + 1])
        /\ UNCHANGED <<envVars, cacheVars, analysisVars, debounceTimer, runLog, extVars>>

\* the project of the run specifications: a.ts imports foo from '@/x'
RunConfigs == {<<>>, TsConfigAlias}

RunFileSets == {{FileA, FileX}, {FileA}, {}}

RunSources(files) ==
    Project(files, <<ImportNamed(<<NameFoo>>, ModAliasX)>>, <<ExportFunction(NameFoo)>>, <<>>)

\* the user rewrites or removes tsconfig.json
ChangeTsConfig ==
    /\ \E c \in RunConfigs \ {tsconfigOnDisk} : tsconfigOnDisk' = c
    /\ UNCHANGED <<fsFiles, fsLinks, fsStats, sources, cacheVars, analysisVars, runVars>>

\* the user adds or deletes source files
ChangeFiles ==
    /\ \E files \in RunFileSets \ {fsFiles} :
          /\ fsFiles' = files
          /\ sources' = RunSources(files)
    /\ UNCHANGED <<fsLinks, fsStats, tsconfigOnDisk, cacheVars, analysisVars, runVars>>

InitRun ==
    /\ fsFiles = {FileA, FileX}
    /\ fsLinks = {}
    /\ fsStats = SmallProject
    /\ tsconfigOnDisk \in RunConfigs
    /\ sources = RunSources(fsFiles)
    /\ InitModuleState
    /\ InitAnalysis
    /\ InitNoRuns

NextRun ==
    \/ ManualCommand
    \/ ManualFilesFound
    \/ OnDidSaveTextDocument
    \/ TimerFired
    \/ EnsureOutputDirSettled
    \/ FindProjectFilesSettled
    \/ WriteFileSettled
    \/ ChangeTsConfig
    \/ ChangeFiles

SpecRun == InitRun /\ [][NextRun]_vars

\* an awaited operation settles and its continuation is run
Settle ==
    \/ ManualFilesFound
    \/ EnsureOutputDirSettled
    \/ FindProjectFilesSettled
    \/ WriteFileSettled

SpecRunFair == InitRun /\ [][NextRun]_vars /\ WF_vars(Settle)

\* utils.ts:49: the timeout of the debounce runs its callback once it is set
DebounceTimerFired == TimerCallback("debounce")

\* the run model in which awaited operations settle and a pending debounce
\* timeout fires
NextSave ==
    \/ ManualCommand
    \/ ManualFilesFound
    \/ SaveObserved
    \/ TimerFired
    \/ EnsureOutputDirSettled
    \/ FindProjectFilesSettled
    \/ WriteFileSettled
    \/ ChangeTsConfig
    \/ ChangeFiles

SpecSaveFair ==
    InitRun /\ [][NextSave]_vars /\ WF_vars(Settle) /\ WF_vars(DebounceTimerFired)

(***************************************************************************)
(* debounce (utils.ts:43-55).  debounced is the closure of one function    *)
(* debounce returned:                                                      *)
(*   timeout  the variable of the closure, 0 for null                      *)
(*   timers   the timeouts that are set, as [id, args, due]                *)
(*   now      the clock                                                    *)
(*   log      the invocations of the debounced function and the calls of   *)
(*            func, in the order in which they happened                    *)
(***************************************************************************)
\* the wait of the debounced function, the invocations of a behaviour and
\* the end of the clock
Wait == 2
MaxCalls == 3
MaxTime == 4

ArgValues == {"a", "b"}

keepTimeout(timers, timeout) == timers

\* utils.ts:52: clearTimeout(timeout)
clearTimeout(timers, timeout) == {t \in timers : t.id # timeout}

\* utils.ts:45-53: the debounced function is invoked with args
debouncedFunction(d, args) ==
    [d EXCEPT !.timers = (IF d.timeout # 0 THEN clearTimeout(@, d.timeout) ELSE @)
                            \cup {[id |-> d.nextId, args |-> args, due |-> d.now + Wait]},
              !.timeout = d.nextId,
              !.nextId = @ + 1,
              !.log = Append(@, [kind |-> "invoke", args |-> args, at |-> d.now])]

\* utils.ts:46-49: the callback of the timeout t
later(d, t) ==
    [d EXCEPT !.timeout = 0,
              !.timers = @ \ {t},
              !.log = Append(@, [kind |-> "call", args |-> t.args, at |-> d.now])]

InvokeDebounced ==
    /\ debounced.nextId <= MaxCalls
    /\ \E args \in ArgValues : debounced' = debouncedFunction(debounced, args)
    /\ UNCHANGED <<envVars, cacheVars, analysisVars, isRunning, invocations,
                   debounceTimer, runLog, saved, polling>>

\* a timeout runs its callback when its delay has passed, or later
TimeoutExpires ==
    /\ \E t \in debounced.timers :
          /\ t.due <= debounced.now
          /\ debounced' = later(debounced, t)
    /\ UNCHANGED <<envVars, cacheVars, analysisVars, isRunning, invocations,
                   debounceTimer, runLog, saved, polling>>

TimePasses ==
    /\ debounced.now < MaxTime
    /\ debounced' = [debounced EXCEPT !.now = @ + 1]
    /\ UNCHANGED <<envVars, cacheVars, analysisVars, isRunning, invocations,
                   debounceTimer, runLog, saved, polling>>

\* nothing but the extension is modelled
InitIdle ==
    /\ fsFiles = {}
    /\ fsLinks = {}
    /\ fsStats = SmallProject
    /\ tsconfigOnDisk = <<>>
    /\ sources = <<>>
    /\ InitModuleState
    /\ InitAnalysis
    /\ InitNoRuns

NextDebounce ==
    \/ InvokeDebounced
    \/ TimeoutExpires
    \/ TimePasses

SpecDebounce == InitIdle /\ [][NextDebounce]_vars

(***************************************************************************)
(* setupPolling and the configuration listener (extension.ts:88-134).      *)
(* polling holds the settings, the module variable pollingInterval (0 for  *)
(* null) and the intervals that are set, as [id, period] with the period   *)
(* in milliseconds.                                                        *)
(***************************************************************************)
\* the calls of setupPolling in a behaviour
MaxSetups == 4

\* extension.ts:96-97
DefaultIntervalSeconds == 60
MinIntervalMs == 10000

\* the longest delay of a timer of the runtime; setInterval (extension.ts:99)
\* runs a callback whose delay is not a number from 1 to it every millisecond
TIMEOUT_MAX == 2147483647

\* the values settings.json may hold for pollingIntervalSeconds
ConfiguredSeconds ==
    {Undefined, NonNumericString, Num(0 - 5), Num(0), Num(5), Num(10), Num(60),
     Num(2147484)}

\* utils.ts:70-74: getConfig returns the value of the setting as it is
getConfig(value) == value

\* extension.ts:96: getConfig(...) ?? 60
orDefault(value) == IF value.kind = "undefined" THEN Num(DefaultIntervalSeconds) ELSE value

\* extension.ts:97: intervalSeconds * 1000; the products above TIMEOUT_MAX
\* are one value
timesThousand(value) ==
    IF value.kind # "number" THEN NaN
    ELSE IF value.n > TIMEOUT_MAX \div 1000 THEN AboveTimeoutMax
    ELSE Num(value.n * 1000)

\* extension.ts:97: Math.max(10000, x)
mathMax(n, value) ==
    IF value.kind = "aboveTimeoutMax" THEN AboveTimeoutMax
    ELSE IF value.kind # "number" THEN NaN
    ELSE IF value.n > n THEN value ELSE Num(n)

\* extension.ts:96-97: intervalMs
intervalMsOf(seconds) ==
    mathMax(MinIntervalMs, timesThousand(orDefault(getConfig(seconds))))

\* extension.ts:99: the period at which setInterval runs the callback
periodOf(delay) ==
    IF delay.kind = "number" /\ delay.n >= 1 /\ delay.n <= TIMEOUT_MAX
    THEN delay.n ELSE 1

\* extension.ts:91: clearInterval(pollingInterval)
clearInterval(intervals, id) == {t \in intervals : t.id # id}

\* extension.ts:90-93
clearPolling(p) ==
    IF p.pollingInterval # 0
    THEN [p EXCEPT !.intervals = clearInterval(@, p.pollingInterval),
                   !.pollingInterval = 0]
    ELSE p

\* extension.ts:94-111, after the previous interval was cleared
startPolling(p) ==
    IF getConfig(p.enablePolling)
    THEN [p EXCEPT !.intervals = @ \cup {[id |-> p.nextId,
                                          period |-> periodOf(intervalMsOf(
                                                        p.pollingIntervalSeconds))]},
                   !.pollingInterval = p.nextId,
                   !.nextId = @ + 1]
    ELSE [p EXCEPT !.nextId = @ + 1]

\* extension.ts:88-113; nextId also counts the calls
setupPolling(p) == startPolling(clearPolling(p))

\* extension.ts:13-113: activate sets up polling under the current settings
Activate ==
    /\ ~polling.activated
    /\ polling' = setupPolling([polling EXCEPT !.activated = TRUE])
    /\ UNCHANGED <<envVars, cacheVars, analysisVars, isRunning, invocations,
                   debounceTimer, runLog, saved, debounced>>

\* extension.ts:116-134: the user changes a polling setting; the listener of
\* the activated extension sets polling up again
ChangePollingConfiguration ==
    /\ polling.nextId <= MaxSetups
    /\ \E enable \in BOOLEAN, seconds \in ConfiguredSeconds :
          /\ enable # polling.enablePolling \/ seconds # polling.pollingIntervalSeconds
          /\ polling' = IF polling.activated
                        THEN setupPolling([polling EXCEPT
                                              !.enablePolling = enable,
                                              !.pollingIntervalSeconds = seconds])
                        ELSE [polling EXCEPT !.enablePolling = enable,
                                             !.pollingIntervalSeconds = seconds,
                                             !.nextId = @ + 1]
    /\ UNCHANGED <<envVars, cacheVars, analysisVars, isRunning, invocations,
                   debounceTimer, runLog, saved, debounced>>

NextPolling ==
    \/ Activate
    \/ ChangePollingConfiguration

SpecPolling == InitIdle /\ [][NextPolling]_vars

\* the run model on a project at, or over, the limits of part_002:9-10
LimitStats ==
    {[others |-> n, sizes |-> [file \in {FileA} |-> size]] :
        n \in {0, MAX_FILES - 2, MAX_FILES - 1},
        size \in {MAX_FILE_SIZE, MAX_FILE_SIZE + 1}}

InitLimits ==
    /\ fsFiles = {FileA, FileX}
    /\ fsLinks = {}
    /\ fsStats \in LimitStats
    /\ tsconfigOnDisk = TsConfigAlias
    /\ sources = RunSources(fsFiles)
    /\ InitModuleState
    /\ InitAnalysis
    /\ InitNoRuns

SpecLimits == InitLimits /\ [][NextRun]_vars

(***************************************************************************)
(* Properties.                                                             *)
(***************************************************************************)
\* the keys of the entries the result lists as used / as unused
usedKey(key) == \E i \in 1..Len(result.usedExports) : result.usedExports[i].key = key

unusedKey(key) == \E i \in 1..Len(result.unusedExports) : result.unusedExports[i].key = key

\* the Export objects the result lists as used / as unused
inUsed(exp) == \E i \in 1..Len(result.usedExports) : result.usedExports[i].exp = exp

inUnused(exp) == \E i \in 1..Len(result.unusedExports) : result.unusedExports[i].exp = exp

\* where the module reference of an import leads from its importing file
resolvesTo(sourceModule, importerPath, file) ==
    resolveModulePath(G, sourceModule, pathNormalize(importerPath), Workspace)
        .resolution.resolvedPath = file

\* some import of another file resolves to file and lists name
importedByName(file, name) ==
    \E i \in 1..Len(facts.allImports) :
        /\ pathNormalize(facts.allImports[i].sourcePath) # file
        /\ resolvesTo(facts.allImports[i].sourceModule, facts.allImports[i].sourcePath, file)
        /\ InSeq(name, facts.allImports[i].importedNames)

\* some import declaration of another file resolves to file and lists name
\* among its named bindings: import { name } from '...'
importedAsNamedBinding(file, name) ==
    \E f \in 1..Len(sources) : \E n \in 1..Len(sources[f].stmts) :
        /\ sources[f].stmts[n].kind = "ImportDeclaration"
        /\ pathNormalize(sources[f].path) # file
        /\ resolvesTo(sources[f].stmts[n].module, sources[f].path, file)
        /\ InSeq(name, sources[f].stmts[n].names)

\* the usage sites pushed by the liveness rules other than the hook rule
otherRulePushes ==
    routeHandlerPushes(an, facts.routes) \o serverActionPushes(an, facts.serverActions)
    \o conventionPushes(an, StrPage) \o conventionPushes(an, StrLayout)
    \o specialExportPushes(facts.allExports)

\* some liveness rule pushes a usage site for key
livenessRuleMatches(key) ==
    \/ \E i \in 1..Len(otherRulePushes) : otherRulePushes[i].key = key
    \/ \E i \in 1..Len(hookPushes(an, facts.hooks)) : hookPushes(an, facts.hooks)[i].key = key

\* C1: after classification, every Export handed to analyzeDependencies is in
\* exactly one of usedExports and unusedExports (in one of them, not in both).
C1_EveryExportInExactlyOneList ==
    pc = "done" =>
        \A i \in 1..Len(facts.allExports) :
            inUsed(facts.allExports[i]) # inUnused(facts.allExports[i])

\* C7: a non-default export foo of file F is in usedExports whenever an import
\* of another file resolves to F and lists foo, whatever else F exports and in
\* whatever order; it is in unusedExports when no such import exists and no
\* liveness rule matches it.
C7_NamedExportUsedWhenImported ==
    pc = "done" =>
        \A i \in 1..Len(an.exportsMap) :
            LET entry == an.exportsMap[i]
            IN  ~entry.exp.isDefault =>
                    IF importedAsNamedBinding(entry.key[1], entry.exp.name)
                    THEN usedKey(entry.key)
                    ELSE ( /\ ~importedByName(entry.key[1], entry.exp.name)
                           /\ ~livenessRuleMatches(entry.key) )
                         => unusedKey(entry.key)

\* C8: when the file an import resolves to declares a default export with no
\* local name, a default-import binding of that file matches it whatever the
\* binding is called, and that default export is in usedExports.
C8_AnonymousDefaultUsedByDefaultImport ==
    pc = "done" =>
        \A f \in 1..Len(sources) : \A n \in 1..Len(sources[f].stmts) :
            LET node == sources[f].stmts[n]
            IN  (node.kind = "ImportDeclaration" /\ node.name # <<>>) =>
                    \A i \in 1..Len(an.exportsMap) :
                        LET entry == an.exportsMap[i]
                        IN  ( /\ entry.exp.isDefault
                              /\ entry.exp.localName = <<>>
                              /\ resolvesTo(node.module, sources[f].path, entry.key[1]) )
                            => usedKey(entry.key)

\* the file a module reference names on disk, by the probing of the resolver:
\* require.resolve or the extension/index probing for a relative reference,
\* the first target of the matching path alias otherwise; <<>> when none
fileNamedBy(sourceModule, importerPath) ==
    IF startsWith(sourceModule, Dot)
    THEN orElse(requireResolve(sourceModule, pathDirname(importerPath)),
                probeFileOrIndex(pathResolve(pathDirname(importerPath), sourceModule)))
    ELSE LET tsConfig == getTsConfigOptions(clearTsConfigCache(G), Workspace).value
             longestMatch == IF tsConfig.present
                             THEN longestMatchLoop(tsConfig.paths, sourceModule, <<>>)
                             ELSE <<>>
             targets == IF longestMatch = <<>> THEN <<>>
                        ELSE targetsOf(tsConfig.paths, longestMatch)
         IN  IF Len(targets) = 0 THEN <<>>
             ELSE probeAlias(pathResolve(tsConfig.baseUrl,
                      aliasTargetPath(targets[1], remainingPathOf(sourceModule, longestMatch))))

\* C4: for an import whose reference (relative or aliased) leads to a path
\* inside node_modules, no MissingImport entry is recorded.
C4_VendorImportNeverMissing ==
    pc = "done" =>
        \A i \in 1..Len(facts.allImports) :
            LET imp == facts.allImports[i]
            IN  includes(fileNamedBy(imp.sourceModule, pathNormalize(imp.sourcePath)),
                         StrNodeModules)
                => ~\E k \in 1..Len(result.missingImports) :
                       /\ result.missingImports[k].importingFilePath = imp.sourcePath
                       /\ result.missingImports[k].importingLine = imp.line

\* C5: within one analysis the resolution procedure runs at most once for each
\* (moduleReference, importingFile, projectRoot).
C5_ResolutionRunsOncePerKey ==
    \A i \in 1..Len(an.probeLog) : \A j \in 1..Len(an.probeLog) :
        i # j => an.probeLog[i] # an.probeLog[j]

\* a hook is declared for the export of the entry
isDeclaredHook(entry) ==
    \E h \in 1..Len(facts.hooks) :
        /\ facts.hooks[h].name = entry.exp.name
        /\ pathNormalize(facts.hooks[h].filePath) = entry.key[1]

\* no hook-call usage is recorded for the hooks declared for the entry
noHookCalls(entry) ==
    \A h \in 1..Len(facts.hooks) :
        ( /\ facts.hooks[h].name = entry.exp.name
          /\ pathNormalize(facts.hooks[h].filePath) = entry.key[1] )
        => facts.hooks[h].usedIn = <<>>

\* site is where a recorded hook call of name stands
isHookCallSite(site, name) ==
    \E u \in 1..Len(facts.dynamicUsages) :
        /\ facts.dynamicUsages[u].usageType = "hook-call"
        /\ facts.dynamicUsages[u].targetPath = name
        /\ facts.dynamicUsages[u].sourceFile = site.filePath
        /\ facts.dynamicUsages[u].line = site.line

\* the hook rule leaves every usage list as it is or appends to it, and what it
\* appends are sites of recorded hook calls of that name, never the sentinel
HookRuleAppendsOnlyHookCalls ==
    /\ Len(an'.exportsMap) = Len(an.exportsMap)
    /\ \A i \in 1..Len(an.exportsMap) :
          LET before == an.exportsMap[i].usedIn
              after == an'.exportsMap[i].usedIn
          IN  /\ Len(after) >= Len(before)
              /\ SubSeq(after, 1, Len(before)) = before
              /\ \A k \in (Len(before) + 1)..Len(after) :
                    /\ after[k].filePath # FrameworkFile
                    /\ isHookCallSite(after[k], an.exportsMap[i].exp.name)

\* an export of a declared hook without hook calls, without an import that
\* lists it and without another liveness rule is unused
DeclaredHookAloneIsUnused ==
    pc = "done" =>
        \A i \in 1..Len(an.exportsMap) :
            LET entry == an.exportsMap[i]
            IN  ( /\ isDeclaredHook(entry)
                  /\ noHookCalls(entry)
                  /\ ~importedByName(entry.key[1], entry.exp.name)
                  /\ ~\E p \in 1..Len(otherRulePushes) : otherRulePushes[p].key = entry.key )
                => unusedKey(entry.key) /\ ~usedKey(entry.key)

\* C9: a declared hook is never marked used by its declaration alone (without
\* hook calls, imports or another liveness rule its export is unused), and the
\* hook rule appends only recorded hook-call usage sites, never the framework
\* sentinel.
C9_HookNotUsedByDeclaration ==
    /\ []DeclaredHookAloneIsUnused
    /\ [][(pc = "hookRule" /\ pc' = "pageRule") => HookRuleAppendsOnlyHookCalls]_vars

\* a declared hook without calls or imports has been classified unused
C9_Witness ==
    /\ pc = "done"
    /\ \E i \in 1..Len(an.exportsMap) :
          /\ isDeclaredHook(an.exportsMap[i])
          /\ noHookCalls(an.exportsMap[i])
          /\ ~importedByName(an.exportsMap[i].key[1], an.exportsMap[i].exp.name)
          /\ unusedKey(an.exportsMap[i].key)

\* an API route file: route.ts or route.js beneath app/api
isApiRouteFile(filePath) ==
    /\ includes(filePath, StrApp \o <<"a", "p", "i", "/">>)
    /\ pathBasename(filePath) \in {StrRoute \o ExtTs, StrRoute \o ExtJs}

\* C10: an export named as an HTTP method in an API route file is in
\* usedExports without any import, in every export form the parser records.
C10_RouteHandlerExportUsed ==
    pc = "done" =>
        \A i \in 1..Len(an.exportsMap) :
            ( /\ isApiRouteFile(an.exportsMap[i].key[1])
              /\ InSeq(an.exportsMap[i].exp.name, HttpMethods) )
            => usedKey(an.exportsMap[i].key)

\* a handler is between the acquisition of the guard and its release
isActive(inv) == inv.step \in {"ensureOutputDir", "findProjectFiles", "writeFile"}

AtMostOneRun ==
    Cardinality({i \in 1..Len(invocations) : isActive(invocations[i])}) <= 1

\* a trigger whose handler has returned stays as it returned: nothing is queued
ReturnedStaysReturned ==
    \A i \in 1..Len(invocations) :
        invocations[i].step = "returned" =>
            /\ Len(invocations') >= i
            /\ invocations'[i] = invocations[i]

\* C2, as amended: at most one run holds the guard; a call of
\* updateDependencyReports made while a run is active returns at once, does no
\* discovery, parsing, analysis or report writing and is not queued; the manual
\* command has by then done its own discovery (findProjectFilesWithRetry),
\* which no timer trigger does.
C2_SkippedCallDoesNoWork ==
    /\ [](AtMostOneRun
          /\ \A i \in 1..Len(invocations) :
                invocations[i].exit = "skipped" =>
                    /\ invocations[i].step = "returned"
                    /\ invocations[i].did =
                          IF invocations[i].trigger = "manual" THEN {"discovery"} ELSE {})
    /\ [][ReturnedStaysReturned]_vars

\* C2, as stated: at most one run holds the guard, and a trigger that arrives
\* while a run is active returns without discovery, parsing, analysis or
\* report writes and is not queued.
C2_SkippedTriggerDoesNothing ==
    /\ [](AtMostOneRun
          /\ \A i \in 1..Len(invocations) :
                invocations[i].exit = "skipped" =>
                    /\ invocations[i].step = "returned"
                    /\ invocations[i].did = {})
    /\ [][ReturnedStaysReturned]_vars

\* a manual command and a timer callback were both skipped by a run that is
\* still active
C2_Witness ==
    \E i \in 1..Len(invocations) : \E j \in 1..Len(invocations) :
        /\ isActive(invocations[i])
        /\ invocations[j].exit = "skipped"
        /\ invocations[j].trigger = "manual"

\* C3: a run that acquired the guard releases it on every exit path, so the
\* guard is never held forever.
C3_GuardEventuallyReleased == isRunning ~> ~isRunning

\* the guard is free again after a run that ended with an exception
C3_Witness ==
    /\ ~isRunning
    /\ \E i \in 1..Len(invocations) :
          invocations[i].exit = "threw" /\ "analysis" \in invocations[i].did

\* the module state of a process that has not analysed anything yet
FreshModuleState ==
    [tsConfigReadAttempted |-> FALSE, cachedTsConfigPaths |-> NullTsConfig,
     moduleResolutionCache |-> <<>>]

\* an analysis takes place in this step
AnalysisRuns ==
    \E i \in 1..Len(invocations) :
        /\ invocations[i].step = "findProjectFiles"
        /\ Len(invocations') >= i
        /\ invocations'[i].step = "writeFile"

\* C6: an analysis run returns no resolution result and no alias table cached
\* by an earlier run: the resolution cache is empty when it starts, and its
\* result and the alias table it leaves are those of a process with empty
\* caches reading the disk now.
C6_NoStaleCacheAcrossRuns ==
    [][AnalysisRuns =>
          LET fresh == analyzeDependencies(parseProject(sources, Workspace),
                                           FreshModuleState, Workspace)
          IN  /\ moduleResolutionCache = <<>>
              /\ result'.usedExports = fresh.result.usedExports
              /\ result'.unusedExports = fresh.result.unusedExports
              /\ result'.missingImports = fresh.result.missingImports
              /\ cachedTsConfigPaths' = fresh.g.cachedTsConfigPaths
              /\ moduleResolutionCache' = <<>>]_vars

\* a second analysis has run against a compiler config that differs from the
\* one the earlier analysis read and cached
C6_Witness ==
    \E n \in 1..(Len(runLog) - 1) :
        /\ runLog[n].config # <<>>
        /\ runLog[n + 1].config # runLog[n].config
        /\ runLog[n].files = {FileA, FileX}

(***************************************************************************)
(* The route handler rule and the matching of fetch calls to routes.       *)
(***************************************************************************)
\* the absolute path of the file that declares the route
declaringFile(route) == pathJoin(Workspace, route.filePath)

\* the usage site a DynamicUsage is propagated as
siteOf(usage) == [filePath |-> usage.sourceFile, line |-> usage.line]

hasSite(entry, site) == \E k \in 1..Len(entry.usedIn) : entry.usedIn[k] = site

\* the entry is a handler export of the route: declared in the route's own
\* file under one of the route's recognized method names
isHandlerOf(entry, route) ==
    /\ entry.key[1] = declaringFile(route)
    /\ InSeq(entry.exp.name, route.exportedMethods)

\* C11: the route handler rule applied for a route R adds usage sites (the
\* framework sentinel, R's fetch usages) only to exports declared in R's own
\* file under one of R's recognized method names, never to an export of
\* another file.
C11_RouteRuleMarksOwnFileOnly ==
    pc = "serverActionRule" =>
        \A r \in 1..Len(facts.routes) :
            LET pushes == routeHandlerPushes(an, <<facts.routes[r]>>)
            IN  \A k \in 1..Len(pushes) :
                    /\ pushes[k].key[1] = declaringFile(facts.routes[r])
                    /\ InSeq(pushes[k].key[2], facts.routes[r].exportedMethods)

\* C12 (as amended): once the route handler rule has run, a handler export of
\* a route R carries the framework sentinel and, as a usage site, every fetch
\* usage attached to R whose HTTP method is the export's name.
C12_RouteUsagesOfMethodPropagated ==
    pc = "serverActionRule" =>
        \A r \in 1..Len(facts.routes) : \A i \in 1..Len(an.exportsMap) :
            isHandlerOf(an.exportsMap[i], facts.routes[r]) =>
                /\ hasSite(an.exportsMap[i], [filePath |-> FrameworkFile, line |-> 0])
                /\ \A u \in 1..Len(facts.routes[r].usedIn) :
                      facts.routes[r].usedIn[u].method = an.exportsMap[i].exp.name
                      => hasSite(an.exportsMap[i], siteOf(facts.routes[r].usedIn[u]))

\* C12 (as stated): once the route handler rule has run, a handler export of a
\* route R carries every fetch usage attached to R as a usage site.
C12_EveryRouteUsagePropagated ==
    pc = "serverActionRule" =>
        \A r \in 1..Len(facts.routes) : \A i \in 1..Len(an.exportsMap) :
            isHandlerOf(an.exportsMap[i], facts.routes[r]) =>
                \A u \in 1..Len(facts.routes[r].usedIn) :
                    hasSite(an.exportsMap[i], siteOf(facts.routes[r].usedIn[u]))

\* the GET handler of a route has received the site of a fetch attached to it
C12_Witness ==
    /\ pc = "serverActionRule"
    /\ \E r \in 1..Len(facts.routes) : \E i \in 1..Len(an.exportsMap) :
          /\ isHandlerOf(an.exportsMap[i], facts.routes[r])
          /\ \E u \in 1..Len(facts.routes[r].usedIn) :
                /\ facts.routes[r].usedIn[u].method = an.exportsMap[i].exp.name
                /\ hasSite(an.exportsMap[i], siteOf(facts.routes[r].usedIn[u]))

\* the pattern the route path stands for: a character, "segment" for [name],
\* "segments" for [...name]
RECURSIVE statedPattern(_, _)
statedPattern(s, i) ==
    IF i > Len(s) THEN <<>>
    ELSE IF s[i] = "[" /\ closingBracket(s, i) # 0
    THEN <<IF startsWith(SubSeq(s, i + 1, Len(s)), <<".", ".", ".">>)
           THEN "segments" ELSE "segment">>
         \o statedPattern(s, closingBracket(s, i) + 1)
    ELSE <<s[i]>> \o statedPattern(s, i + 1)

RECURSIVE statedPatternMatch(_, _, _, _)
\* the target from character j on matches the pattern from token i on, with
\* an optional trailing path
statedPatternMatch(pattern, i, target, j) ==
    IF i > Len(pattern)
    THEN j > Len(target) \/ target[j] = "/"
    ELSE IF pattern[i] \in {"segment", "segments"}
    THEN \E k \in j..Len(target) :
            /\ pattern[i] = "segment" => \A m \in j..k : target[m] # "/"
            /\ statedPatternMatch(pattern, i + 1, target, k + 1)
    ELSE /\ j <= Len(target)
         /\ pattern[i] = target[j]
         /\ statedPatternMatch(pattern, i + 1, target, j + 1)

statedRouteMatch(routePath, targetPath) ==
    \/ targetPath = routePath
    \/ startsWith(targetPath, routePath \o Slash)
    \/ statedPatternMatch(statedPattern(routePath, 1), 1, targetPath, 1)

\* the usage is among those attached to the route
attachedTo(route, usage) == \E k \in 1..Len(route.usedIn) : route.usedIn[k] = usage

\* C19: a fetch target is accepted for a route path exactly when it equals the
\* path, or starts with the path followed by "/", or matches the path with
\* each [name] taken as one segment and each [...name] as one or more
\* segments, with an optional trailing path; seen in the routes the parsed
\* fetch calls are attached to.
C19_RouteMatchAsStated ==
    pc # "parse" =>
        \A u \in 1..Len(facts.dynamicUsages) : \A r \in 1..Len(facts.routes) :
            facts.dynamicUsages[u].usageType = "fetch" =>
                ( attachedTo(facts.routes[r], facts.dynamicUsages[u])
                  <=> /\ statedRouteMatch(facts.routes[r].routePath,
                                          facts.dynamicUsages[u].targetPath)
                      /\ \A q \in 1..(r - 1) :
                            ~statedRouteMatch(facts.routes[q].routePath,
                                              facts.dynamicUsages[u].targetPath) )

\* the routes, by index, that the predicate of parseProject accepts for usage
matchingRoutes(usage) ==
    {r \in 1..Len(facts.routes) : routeMatches(facts.routes[r], usage)}

attachedRoutes(usage) ==
    {r \in 1..Len(facts.routes) : attachedTo(facts.routes[r], usage)}

\* C20: a fetch usage is attached to the first route of the route list that
\* matches it and to no other, once; a usage that matches no route and a
\* usage of another kind are attached to no route.
C20_UsageAttachedToFirstMatchOnly ==
    pc # "parse" =>
        \A u \in 1..Len(facts.dynamicUsages) :
            LET usage == facts.dynamicUsages[u]
                M == matchingRoutes(usage)
            IN  /\ IF usage.usageType = "fetch" /\ M # {}
                   THEN attachedRoutes(usage) = {CHOOSE r \in M : \A q \in M : r <= q}
                   ELSE attachedRoutes(usage) = {}
                /\ \A r \in 1..Len(facts.routes) :
                      Cardinality({k \in 1..Len(facts.routes[r].usedIn) :
                                      facts.routes[r].usedIn[k] = usage}) <= 1

\* a fetch that two routes match is attached to the first of them only, and
\* a hook call is attached to none
C20_Witness ==
    /\ pc = "done"
    /\ \E u \in 1..Len(facts.dynamicUsages) :
          /\ facts.dynamicUsages[u].usageType = "fetch"
          /\ Cardinality(matchingRoutes(facts.dynamicUsages[u])) = 2
          /\ Cardinality(attachedRoutes(facts.dynamicUsages[u])) = 1
    /\ \E u \in 1..Len(facts.dynamicUsages) :
          facts.dynamicUsages[u].usageType = "hook-call"

\* the file lies beneath a directory named actions
underActionsDirectory(filePath) == InSeq(<<"a", "c", "t", "i", "o", "n", "s">>,
                                         SubSeq(split(filePath, "/"), 1,
                                                Len(split(filePath, "/")) - 1))

\* C13: every export, default or named, declared in a file beneath a
\* directory named "actions" is in usedExports when the analysis is done,
\* wherever the directory lies and whether or not the file is imported.
C13_ActionsExportsUsed ==
    pc = "done" =>
        \A i \in 1..Len(an.exportsMap) :
            underActionsDirectory(an.exportsMap[i].key[1]) => usedKey(an.exportsMap[i].key)

(***************************************************************************)
(* Resolution outcomes as the analysis reports them.  An import of a name  *)
(* from a file without exports leaves one MissingImport entry per name:    *)
(* with resolvedTargetPath when the reference resolved, with the error of  *)
(* resolveModulePath when it did not.                                      *)
(***************************************************************************)
\* the MissingImport entries left by the import
entriesOf(imp) ==
    {k \in 1..Len(an.missingImports) :
        /\ an.missingImports[k].importingFilePath = imp.sourcePath
        /\ an.missingImports[k].importingLine = imp.line}

\* the imports of module reference sourceModule processed so far
processedImportsOf(sourceModule) ==
    {i \in 1..an.impIdx : facts.allImports[i].sourceModule = sourceModule}

\* the import was reported as resolved to file
reportedResolved(imp, file) ==
    /\ entriesOf(imp) # {}
    /\ \A k \in entriesOf(imp) : an.missingImports[k].resolvedTargetPath = file

\* the import was reported as failed with an error that begins with msg
reportedFailed(imp, msg) ==
    /\ entriesOf(imp) # {}
    /\ \A k \in entriesOf(imp) :
          /\ an.missingImports[k].resolvedTargetPath = <<>>
          /\ startsWith(an.missingImports[k].resolutionError, msg)

\* the candidate path a relative reference names
candidateOf(imp) == pathResolve(pathDirname(imp.sourcePath), imp.sourceModule)

\* candidate.<ext> in the order of the extension list
fileCandidates(candidate) == [e \in 1..Len(allowedExts) |-> candidate \o allowedExts[e]]

\* candidate/index.<ext> in the order of the extension list
indexCandidates(candidate) ==
    [e \in 1..Len(allowedExts) |-> pathJoin(candidate, StrIndex \o allowedExts[e])]

existingOf(paths) == {k \in 1..Len(paths) : paths[k] \in fsFiles}

\* C14: ./x imported from a.ts resolves to x.ts when x.ts exists, to
\* x/index.tsx when that is the only candidate that exists, and fails with
\* "Relative path resolution failed" when no x.<ext> and no x/index.<ext>
\* exists.
C14_RelativeReferenceExamples ==
    \A i \in processedImportsOf(ModX) :
        LET imp == facts.allImports[i]
            files == fileCandidates(candidateOf(imp))
            indexes == indexCandidates(candidateOf(imp))
        IN  /\ FileX \in fsFiles => reportedResolved(imp, FileX)
            /\ ( /\ existingOf(files) = {}
                 /\ \A k \in existingOf(indexes) : indexes[k] = FileXIndexTsx
                 /\ FileXIndexTsx \in fsFiles )
               => reportedResolved(imp, FileXIndexTsx)
            /\ (existingOf(files) = {} /\ existingOf(indexes) = {})
               => reportedFailed(imp, MsgRelativeFailed)

\* the probe order: candidate.<ext> for each extension, then index.<ext>
\* inside the candidate when it is a directory
probeOrder(candidate) ==
    fileCandidates(candidate)
    \o (IF isDirectory(candidate) THEN indexCandidates(candidate) ELSE <<>>)

\* C15: a relative reference resolves to the first existing regular file of
\* the probe order .ts, .tsx, .js, .jsx, then index.ts, index.tsx, index.js,
\* index.jsx of a directory; with x.ts and x.js both present it is x.ts.
C15_FirstInProbeOrderWins ==
    \A i \in 1..an.impIdx :
        LET imp == facts.allImports[i]
            order == probeOrder(candidateOf(imp))
            E == existingOf(order)
        IN  (startsWith(imp.sourceModule, Dot) /\ E # {})
            => reportedResolved(imp, order[CHOOSE k \in E : \A m \in E : k <= m])

\* the literal prefix of an alias key: the key without its wildcard
literalPrefix(key) == IF endsWith(key, Star) THEN sliceDropLast(key) ELSE key

keyMatches(key, sourceModule) ==
    IF endsWith(key, Star) THEN startsWith(sourceModule, literalPrefix(key))
    ELSE sourceModule = key

\* the key of the longest literal prefix among the matching keys, the first
\* of them among equals; <<>> when no key matches
statedLongestMatch(paths, sourceModule) ==
    LET M == {k \in 1..Len(paths) : keyMatches(paths[k].key, sourceModule)}
        best(k) == \A m \in M :
                      \/ Len(literalPrefix(paths[k].key)) > Len(literalPrefix(paths[m].key))
                      \/ /\ Len(literalPrefix(paths[k].key)) = Len(literalPrefix(paths[m].key))
                         /\ k <= m
    IN  IF M = {} THEN <<>> ELSE paths[CHOOSE k \in M : best(k)].key

twoWildcardKeysMatch(paths, sourceModule) ==
    Cardinality({k \in 1..Len(paths) : /\ endsWith(paths[k].key, Star)
                                       /\ keyMatches(paths[k].key, sourceModule)}) >= 2

\* C16: a non-relative reference is resolved through the alias entry with
\* the longest literal prefix among those that match it, for every pair of
\* matching wildcard keys whatever the difference of their prefix lengths:
\* the import is reported with the outcome of that entry's targets.
C16_LongestPrefixEntrySelected ==
    \A i \in 1..an.impIdx :
        LET imp == facts.allImports[i]
            viaStated == resolveWithMatch(imp.sourceModule, cachedTsConfigPaths,
                             statedLongestMatch(cachedTsConfigPaths.paths, imp.sourceModule))
        IN  ( /\ ~startsWith(imp.sourceModule, Dot)
              /\ cachedTsConfigPaths.present
              /\ twoWildcardKeysMatch(cachedTsConfigPaths.paths, imp.sourceModule) )
            => IF viaStated.resolvedPath # <<>>
               THEN reportedResolved(imp, viaStated.resolvedPath)
               ELSE reportedFailed(imp, viaStated.error)

\* C17: with baseUrl s and the mapping "@/*": ["*"], @/u/h imported from any
\* file resolves to s/u/h.<ext> when such a file exists, and is reported as
\* "Alias resolution failed", not as external, when no target of the entry
\* leads to an existing file.
C17_AliasResolvesOrAliasFailure ==
    tsconfigOnDisk = TsConfigSrc =>
        \A i \in processedImportsOf(ModAliasUH) :
            LET imp == facts.allImports[i]
                candidate == pathJoin(pathJoin(Workspace, <<"s">>), <<"u", "/", "h">>)
                files == fileCandidates(candidate)
            IN  /\ existingOf(files) # {}
                   => \E k \in existingOf(files) : reportedResolved(imp, files[k])
                /\ ( /\ existingOf(files) = {}
                     /\ existingOf(indexCandidates(candidate)) = {}
                     /\ candidate \notin fsFiles )
                   => /\ reportedFailed(imp, MsgAliasFailed)
                      /\ \A k \in entriesOf(imp) :
                            ~isLikelyExternal(an.missingImports[k].resolutionError)

\* @/u/h was imported from a.ts and from s/b.ts, once with s/u/h.ts on disk
\* and resolved to it
C17_Witness ==
    /\ pc = "done"
    /\ tsconfigOnDisk = TsConfigSrc
    /\ FileSUH \in fsFiles
    /\ \E i \in processedImportsOf(ModAliasUH) : \E j \in processedImportsOf(ModAliasUH) :
          /\ facts.allImports[i].sourcePath = FileA
          /\ facts.allImports[j].sourcePath = FileSB
          /\ reportedResolved(facts.allImports[j], FileSUH)

\* @/u/h was imported with no file behind the alias and reported as an alias
\* failure
C17_WitnessFailure ==
    /\ pc = "done"
    /\ tsconfigOnDisk = TsConfigSrc
    /\ \E i \in processedImportsOf(ModAliasUH) :
          reportedFailed(facts.allImports[i], MsgAliasFailed)

\* the reference is not relative and no alias entry matches it: there is no
\* readable compiler config, or none of its keys matches
isExternalReference(sourceModule) ==
    /\ ~startsWith(sourceModule, Dot)
    /\ \/ tsconfigOnDisk = <<>>
       \/ ~tsconfigOnDisk[1].readable
       \/ \A k \in 1..Len(tsconfigOnDisk[1].paths) :
             ~keyMatches(tsconfigOnDisk[1].paths[k].key, sourceModule)

\* an error string of the analysis about the import
errorsOf(imp) ==
    {k \in 1..Len(an.analysisErrors) :
        startsWith(an.analysisErrors[k], MsgResolutionFailedFor \o imp.sourceModule \o MsgIn)}

\* the exports that carry the line of the import as a usage site
exportsUsedBy(imp) ==
    {k \in 1..Len(an.exportsMap) :
        hasSite(an.exportsMap[k], [filePath |-> imp.sourcePath, line |-> imp.line])}

\* C18: an import of a non-relative reference that matches no alias entry
\* (or with no alias table) leaves no MissingImport entry and no error
\* string, and no export is marked used because of it.
C18_ExternalImportSilent ==
    \A i \in 1..an.impIdx :
        isExternalReference(facts.allImports[i].sourceModule) =>
            /\ entriesOf(facts.allImports[i]) = {}
            /\ errorsOf(facts.allImports[i]) = {}
            /\ exportsUsedBy(facts.allImports[i]) = {}

\* react was imported under an alias table that does not match it, next to
\* an import that was reported missing
C18_Witness ==
    /\ pc = "done"
    /\ tsconfigOnDisk = TsConfigAlias
    /\ processedImportsOf(ModReact) # {}
    /\ Len(an.missingImports) > 0

(***************************************************************************)
(* Interfaces.                                                             *)
(***************************************************************************)
\* the entries of the returned interfaces that stand for the declaration
interfaceEntriesOf(intf) ==
    {k \in 1..Len(result.interfaces) :
        /\ result.interfaces[k].name = intf.name
        /\ result.interfaces[k].filePath = intf.filePath
        /\ result.interfaces[k].line = intf.line}

\* the usage sites of the potential-usage facts about the name
usageSitesOf(name) ==
    {facts.allPotentialUsage[k].usage :
        k \in {j \in 1..Len(facts.allPotentialUsage) :
                  facts.allPotentialUsage[j].name = name}}

\* the declaration shares its name with declarations of other files only
declaredOncePerFile(d) ==
    \A e \in 1..Len(facts.allInterfaces) :
        (e # d /\ facts.allInterfaces[e].name = facts.allInterfaces[d].name) =>
            facts.allInterfaces[e].filePath # facts.allInterfaces[d].filePath

\* C21: interface declarations of one name in different files each have an
\* entry of their own in the returned interfaces, and every potential-usage
\* fact of that name has its usage site on each of those entries.
C21_SameNameInterfacesKeptDistinct ==
    pc = "done" =>
        \A d \in 1..Len(facts.allInterfaces) :
            declaredOncePerFile(d) =>
                /\ interfaceEntriesOf(facts.allInterfaces[d]) # {}
                /\ \A k \in interfaceEntriesOf(facts.allInterfaces[d]) :
                      \A site \in usageSitesOf(facts.allInterfaces[d].name) :
                          \E u \in 1..Len(result.interfaces[k].usedIn) :
                              result.interfaces[k].usedIn[u] = site

(***************************************************************************)
(* The framework liveness rules as a whole.                                *)
(***************************************************************************)
\* the steps at which all rules, or some of them, have run and the partition
\* has not
AfterSomeRule == {"serverActionRule", "hookRule", "pageRule", "layoutRule",
                  "specialRule", "partition"}

\* a rule is applied in the step
isRuleStep == pc' # pc /\ (pc' \in AfterSomeRule)

sitesOf(entry) == {entry.usedIn[u] : u \in 1..Len(entry.usedIn)}

isPrefix(s, t) == Len(s) <= Len(t) /\ \A i \in 1..Len(s) : s[i] = t[i]

\* the rules run after the last import and before the partition
RulesBetweenImportsAndPartition ==
    /\ pc \in AfterSomeRule =>
          /\ an.impIdx = Len(facts.allImports)
          /\ result = EmptyResult
    /\ pc = "done" =>
          /\ result.usedExports = partition(an).usedExports
          /\ result.unusedExports = partition(an).unusedExports

\* a rule keeps every entry of the export index and every usage site on it
RuleStepAdditive ==
    isRuleStep =>
        /\ Len(an'.exportsMap) = Len(an.exportsMap)
        /\ \A k \in 1..Len(an.exportsMap) :
              /\ an'.exportsMap[k].key = an.exportsMap[k].key
              /\ isPrefix(an.exportsMap[k].usedIn, an'.exportsMap[k].usedIn)

\* a second application of the rule set leaves the export index as it is
SecondApplicationLeavesIndex ==
    pc = "partition" => applyRules(an, facts).exportsMap = an.exportsMap

\* a second application of the rule set adds no usage site that is not on the
\* export already
SecondApplicationAddsNoNewSite ==
    pc = "partition" =>
        LET twice == applyRules(an, facts).exportsMap
        IN  /\ Len(twice) = Len(an.exportsMap)
            /\ \A k \in 1..Len(twice) :
                  /\ twice[k].key = an.exportsMap[k].key
                  /\ sitesOf(twice[k]) = sitesOf(an.exportsMap[k])

\* C22 as stated: the rules run after the imports and before the partition,
\* no rule removes a usage site, and applying the rule set a second time
\* leaves the export index equal to the result of applying it once.
C22_RulesAdditiveAndIdempotent ==
    /\ [](RulesBetweenImportsAndPartition /\ SecondApplicationLeavesIndex)
    /\ [][RuleStepAdditive]_vars

\* C22: the rules run after the imports and before the partition, no rule
\* removes a usage site or an entry, and applying the rule set a second time
\* adds no usage site that the export does not carry already, so that no
\* export changes between used and unused.
C22_RulesAdditiveAndIdempotentOnSites ==
    /\ [](RulesBetweenImportsAndPartition /\ SecondApplicationAddsNoNewSite)
    /\ [][RuleStepAdditive]_vars

\* the rules have run on an index with an export used by an import and have
\* marked another export used
C22_Witness ==
    /\ pc = "partition"
    /\ \E k \in 1..Len(an.exportsMap) :
          \E site \in sitesOf(an.exportsMap[k]) : site.filePath = FileA
    /\ \E k \in 1..Len(an.exportsMap) :
          /\ [filePath |-> FrameworkFile, line |-> 0] \in sitesOf(an.exportsMap[k])
          /\ applyRules(an, facts).exportsMap[k] # an.exportsMap[k]

(***************************************************************************)
(* The order of the imports.                                               *)
(***************************************************************************)
\* the module state at the start of the first analysis (part_001:17-19)
FreshG ==
    [tsConfigReadAttempted |-> FALSE, cachedTsConfigPaths |-> NullTsConfig,
     moduleResolutionCache |-> <<>>]

orderings(n) == {f \in [1..n -> 1..n] : \A i, j \in 1..n : i # j => f[i] # f[j]}

permuted(seq, f) == [i \in 1..Len(seq) |-> seq[f[i]]]

keysOf(entries) == {entries[k].key : k \in 1..Len(entries)}

\* the partition analyzeDependencies returns for the parsed facts with the
\* imports in the given order
partitionFor(allImports) ==
    LET r == analyzeDependencies([facts EXCEPT !.allImports = allImports],
                                 FreshG, Workspace).result
    IN  [used |-> keysOf(r.usedExports), unused |-> keysOf(r.unusedExports)]

\* the processing of an import keeps every usage site of every export
ImportStepGrowsUsage ==
    (pc = "imports" /\ an'.impIdx = an.impIdx + 1) =>
        /\ Len(an'.exportsMap) = Len(an.exportsMap)
        /\ \A k \in 1..Len(an.exportsMap) :
              /\ an'.exportsMap[k].key = an.exportsMap[k].key
              /\ isPrefix(an.exportsMap[k].usedIn, an'.exportsMap[k].usedIn)

\* an export that carries a usage site is in usedExports at the end
UsedStaysUsed ==
    pc = "done" =>
        \A k \in 1..Len(an.exportsMap) :
            Len(an.exportsMap[k].usedIn) > 0 =>
                /\ an.exportsMap[k].key \in keysOf(result.usedExports)
                /\ an.exportsMap[k].key \notin keysOf(result.unusedExports)

\* every order of the imports gives the partition of the analysis
SamePartitionForEveryOrder ==
    pc = "done" =>
        \A f \in orderings(Len(facts.allImports)) :
            partitionFor(permuted(facts.allImports, f)) =
                [used |-> keysOf(result.usedExports),
                 unused |-> keysOf(result.unusedExports)]

\* C23: analyzeDependencies returns the same partition of the exports into
\* usedExports and unusedExports for every permutation of the imports; the
\* usage list of an export only grows while the imports are processed, and
\* an export with a usage site is never classified unused.
C23_PartitionIndependentOfImportOrder ==
    /\ [](SamePartitionForEveryOrder /\ UsedStaysUsed)
    /\ [][ImportStepGrowsUsage]_vars

\* two different imports were processed, one of which marked an export used
\* and one of which did not
C23_Witness ==
    /\ pc = "done"
    /\ Len(facts.allImports) = 2
    /\ facts.allImports[1].sourceModule # facts.allImports[2].sourceModule
          \/ facts.allImports[1].importedNames # facts.allImports[2].importedNames
    /\ exportsUsedBy(facts.allImports[1]) # {}
    /\ exportsUsedBy(facts.allImports[2]) = {}
    /\ result.unusedExports # <<>>

(***************************************************************************)
(* Discovery failures and resource limits.                                 *)
(***************************************************************************)
AnalysisWork == {"parse", "analysis", "write"}

\* the step starts parsing, analysis or report writing for an invocation
startsAnalysisWork ==
    \E i \in 1..Len(invocations) :
        /\ i <= Len(invocations')
        /\ AnalysisWork \cap invocations'[i].did # {}
        /\ AnalysisWork \cap invocations[i].did = {}

\* a run whose discovery failed has parsed, analysed and written nothing
FailedDiscoveryDoesNoWork ==
    \A i \in 1..Len(invocations) :
        invocations[i].exit = "findError" =>
            /\ AnalysisWork \cap invocations[i].did = {}
            /\ invocations[i].written = 0

\* C24: whatever the trigger of a run, no file is parsed, nothing is analysed
\* and no report is written in it when its discovery failed, or when the
\* files found at its discovery are more than MAX_FILES or include a file
\* larger than MAX_FILE_SIZE.
C24_NoWorkOverResourceLimits ==
    /\ []FailedDiscoveryDoesNoWork
    /\ [][startsAnalysisWork => resourceLimits(filesFound) = "none"]_vars

(***************************************************************************)
(* Extraction failures of single files.                                    *)
(***************************************************************************)
\* the extraction of the file fails: it cannot be obtained or read, or the
\* parser throws on it
extractionFails(file) == ~isFile(file.path) \/ visitThrows(file.stmts)

\* no parsed fact comes from the file
contributesNoFacts(path) ==
    /\ \A k \in 1..Len(facts.allExports) : facts.allExports[k].filePath # path
    /\ \A k \in 1..Len(facts.allImports) : facts.allImports[k].sourcePath # path
    /\ \A k \in 1..Len(facts.allInterfaces) : facts.allInterfaces[k].filePath # path
    /\ \A k \in 1..Len(facts.allPotentialUsage) :
          facts.allPotentialUsage[k].usage.filePath # path
    /\ \A k \in 1..Len(facts.dynamicUsages) : facts.dynamicUsages[k].sourceFile # path
    /\ \A k \in 1..Len(facts.hooks) : facts.hooks[k].filePath # path

\* an error string of the result names the file
errorNames(path) ==
    \E k \in 1..Len(result.errors) :
        includes(result.errors[k], relativePath(path, Workspace))

\* the facts are those of the files whose extraction does not fail
remainingFilesParsed ==
    LET succeeds(file) == ~extractionFails(file)
    IN  [facts EXCEPT !.parseErrors = <<>>]
            = parseProject(filterSeq(sources, succeeds), Workspace)

\* C25: a file whose extraction fails, because the parser throws or because
\* the file cannot be obtained or read, contributes no facts and has a string
\* error naming it in the errors of the result, and the remaining files are
\* parsed and analysed.
C25_FailedFileSkippedAndReported ==
    pc = "done" =>
        /\ \A f \in 1..Len(sources) :
              extractionFails(sources[f]) =>
                  /\ contributesNoFacts(sources[f].path)
                  /\ errorNames(sources[f].path)
        /\ remainingFilesParsed
        /\ keysOf(result.usedExports) \cup keysOf(result.unusedExports)
              = {keyOf(facts.allExports[k]) : k \in 1..Len(facts.allExports)}

\* the same for the files on which the parser throws
ThrowingFileSkippedAndReported ==
    pc = "done" =>
        /\ \A f \in 1..Len(sources) :
              (isFile(sources[f].path) /\ visitThrows(sources[f].stmts)) =>
                  /\ contributesNoFacts(sources[f].path)
                  /\ errorNames(sources[f].path)
        /\ remainingFilesParsed

(***************************************************************************)
(* The save trigger.                                                       *)
(***************************************************************************)
\* updateDependencyReports has been called from the debounced save handler
calledFromSave ==
    \E i \in 1..Len(invocations) : invocations[i].trigger = "debounce"

\* C26: once a relevant document has been saved, the debounced handler
\* eventually calls updateDependencyReports (or the bound on the calls of a
\* behaviour has been used up by the other triggers).
C26_SaveLeadsToAnalysisCall ==
    saved ~> (calledFromSave \/ Len(invocations) = MaxInvocations)

(***************************************************************************)
(* The outcomes of a resolved import.                                      *)
(***************************************************************************)
\* the file the reference of the import resolves to, <<>> when it fails
targetOf(imp) ==
    resolveModulePath(FreshG, imp.sourceModule, pathNormalize(imp.sourcePath),
                      Workspace).resolution.resolvedPath

\* the MissingImport entries about one name of the import
missingEntriesOf(imp, name) ==
    {k \in entriesOf(imp) : an.missingImports[k].missingName = name}

\* the usage sites the import has registered: pairs of an entry of the export
\* index and a position of its usage list
sitesRegisteredBy(imp) ==
    UNION {{<<k, u>> : u \in {v \in 1..Len(an.exportsMap[k].usedIn) :
                                  an.exportsMap[k].usedIn[v] =
                                      [filePath |-> imp.sourcePath, line |-> imp.line]}} :
           k \in 1..Len(an.exportsMap)}

\* the exports of the file that have an entry in the export index
indexedExportsOf(file) ==
    {k \in 1..Len(an.exportsMap) : an.exportsMap[k].key[1] = file}

namesOf(imp) == {imp.importedNames[n] : n \in 1..Len(imp.importedNames)}

\* the names of the import without a MissingImport entry
namesFound(imp) == {name \in namesOf(imp) : missingEntriesOf(imp, name) = {}}

\* C27: for a processed import whose reference resolves to a file, every
\* imported name has exactly one outcome: either one usage site (importing
\* file, import line) on one export of the target file, or one MissingImport
\* entry, whose reason is "Export not found in target module" when the target
\* has indexed exports and "Target file resolved but no exports were
\* parsed/found." when it has none.
C27_OneOutcomePerImportedName ==
    \A i \in 1..an.impIdx :
        LET imp == facts.allImports[i]
        IN  targetOf(imp) # <<>> =>
                /\ \A name \in namesOf(imp) :
                      /\ Cardinality(missingEntriesOf(imp, name)) <= 1
                      /\ \A k \in missingEntriesOf(imp, name) :
                            /\ an.missingImports[k].resolvedTargetPath = targetOf(imp)
                            /\ an.missingImports[k].resolutionError =
                                  IF indexedExportsOf(targetOf(imp)) # {}
                                  THEN MsgExportNotFound ELSE MsgNoExportsParsed
                /\ Cardinality(sitesRegisteredBy(imp)) = Cardinality(namesFound(imp))
                /\ \A site \in sitesRegisteredBy(imp) :
                      site[1] \in indexedExportsOf(targetOf(imp))
                /\ indexedExportsOf(targetOf(imp)) = {} => namesFound(imp) = {}

\* an import of two names was processed of which one was registered on an
\* export and the other was reported missing
C27_Witness ==
    \E i \in 1..an.impIdx :
        /\ Len(facts.allImports[i].importedNames) = 2
        /\ Cardinality(sitesRegisteredBy(facts.allImports[i])) = 1
        /\ Cardinality(entriesOf(facts.allImports[i])) = 1

\* an import was processed whose target has no indexed exports
C27_WitnessNoExports ==
    \E i \in 1..an.impIdx :
        /\ entriesOf(facts.allImports[i]) # {}
        /\ \A k \in entriesOf(facts.allImports[i]) :
              an.missingImports[k].resolutionError = MsgNoExportsParsed

(***************************************************************************)
(* The errors of the result.                                               *)
(***************************************************************************)
\* what resolveModulePath returns for the import
resolutionOf(imp) ==
    resolveModulePath(FreshG, imp.sourceModule, pathNormalize(imp.sourcePath),
                      Workspace).resolution

\* the resolution of the import failed and was not classified external
failedNotExternal(imp) ==
    /\ resolutionOf(imp).resolvedPath = <<>>
    /\ resolutionOf(imp).error # <<>>
    /\ ~includes(resolutionOf(imp).error, MsgLikelyExternal)

\* the resolution of the import failed and was classified external
failedExternal(imp) ==
    /\ resolutionOf(imp).resolvedPath = <<>>
    /\ includes(resolutionOf(imp).error, MsgLikelyExternal)

\* an entry of the errors is the resolution failure of the module reference
hasErrorAbout(errors, sourceModule) ==
    \E k \in 1..Len(errors) :
        startsWith(errors[k], MsgResolutionFailedFor \o sourceModule \o MsgIn)

\* the errors analyzeDependencies returns for the imports in the given order
errorsFor(allImports) ==
    analyzeDependencies([facts EXCEPT !.allImports = allImports],
                        FreshG, Workspace).result.errors

\* C28: for every order in which the imports are processed, the errors of
\* the returned result hold an entry for every module reference whose
\* resolution failed for a reason other than being external, and none for a
\* reference classified external.
C28_ErrorForEveryFailedReference ==
    pc = "done" =>
        /\ result.errors = errorsFor(facts.allImports)
        /\ \A f \in orderings(Len(facts.allImports)) :
              \A i \in 1..Len(facts.allImports) :
                  /\ failedNotExternal(facts.allImports[i]) =>
                        hasErrorAbout(errorsFor(permuted(facts.allImports, f)),
                                      facts.allImports[i].sourceModule)
                  /\ failedExternal(facts.allImports[i]) =>
                        ~hasErrorAbout(errorsFor(permuted(facts.allImports, f)),
                                       facts.allImports[i].sourceModule)

(***************************************************************************)
(* debounce.                                                               *)
(***************************************************************************)
\* at most one timeout is set
AtMostOneTimeout == Cardinality(debounced.timers) <= 1

\* every call of func follows the last invocation directly, at least Wait
\* after it, with its arguments
EveryCallAfterQuietWait ==
    \A c \in 1..Len(debounced.log) :
        debounced.log[c].kind = "call" =>
            /\ c > 1
            /\ debounced.log[c - 1].kind = "invoke"
            /\ debounced.log[c - 1].args = debounced.log[c].args
            /\ debounced.log[c].at >= debounced.log[c - 1].at + Wait

\* an invocation that no call has followed has its timeout set
LastInvocationPending ==
    (Len(debounced.log) > 0 /\ debounced.log[Len(debounced.log)].kind = "invoke") =>
        debounced.timers =
            {[id |-> debounced.timeout,
              args |-> debounced.log[Len(debounced.log)].args,
              due |-> debounced.log[Len(debounced.log)].at + Wait]}

\* C29: the function debounce returns calls func only when Wait has passed
\* since its last invocation; every invocation cancels the timeout that is
\* set, so that a burst of invocations less than Wait apart is followed by one
\* call of func, with the arguments of the last invocation, and at most one
\* timeout is set at any time.
C29_DebounceCallsOnceAfterQuietWait ==
    /\ AtMostOneTimeout
    /\ EveryCallAfterQuietWait
    /\ LastInvocationPending
    /\ debounced.timers = {} => debounced.timeout = 0

\* two invocations less than Wait apart, with different arguments, were
\* followed by a call of func
C29_Witness ==
    \E c \in 3..Len(debounced.log) :
        /\ debounced.log[c].kind = "call"
        /\ debounced.log[c - 1].kind = "invoke"
        /\ debounced.log[c - 2].kind = "invoke"
        /\ debounced.log[c - 1].at - debounced.log[c - 2].at < Wait
        /\ debounced.log[c - 1].at > debounced.log[c - 2].at
        /\ debounced.log[c - 1].args # debounced.log[c - 2].args

(***************************************************************************)
(* Polling.                                                                *)
(***************************************************************************)
\* at most one interval is set, and it is the one pollingInterval holds
AtMostOnePollingTimer ==
    /\ Cardinality(polling.intervals) <= 1
    /\ \A t \in polling.intervals : t.id = polling.pollingInterval

\* no interval is set while polling is disabled
NoTimerWhenDisabled == ~polling.enablePolling => polling.intervals = {}

\* C30: after any sequence of activation and changes of the polling
\* settings at most one polling timer is set, none is set when
\* enablePolling is false, and the period of the timer that is set is at
\* least 10 seconds whatever pollingIntervalSeconds holds.
C30_OnePollingTimerOfTenSecondsOrMore ==
    /\ AtMostOnePollingTimer
    /\ NoTimerWhenDisabled
    /\ \A t \in polling.intervals : t.period >= MinIntervalMs

\* the same for the settings that are numbers of seconds up to the longest
\* delay of a timer
OnePollingTimerForOrdinarySeconds ==
    /\ AtMostOnePollingTimer
    /\ NoTimerWhenDisabled
    /\ \A t \in polling.intervals :
          timesThousand(orDefault(polling.pollingIntervalSeconds)).kind = "number"
              => t.period >= MinIntervalMs

====
